---- MODULE Spec2Model ----
(***************************************************************************)
(* Harbinger (javanhut/harbinger): a model of the conflict-detection and   *)
(* resolution engine.                                                      *)
(*                                                                         *)
(*   - the conflict marker parser   (internal/conflict, parseConflict)     *)
(*   - branch-name validation       (internal/git, validateBranchName)     *)
(*   - the repository adapter       (internal/git, Repository methods)     *)
(*   - the polling monitor          (internal/monitor, checkForChanges)    *)
(*   - the resolution session       (internal/conflict, ResolveConflicts)  *)
(*                                                                         *)
(* Text is modelled as a sequence of one-character strings, so that        *)
(* prefix tests, trimming and splitting are computed character by          *)
(* character as the Go code computes them.                                 *)
(***************************************************************************)
EXTENDS Integers, Sequences, FiniteSets, TLC

VARIABLES
    \* ---- parseConflict (one call) ----
    content,          \* the argument: the raw text
    lines,            \* strings.Split(content, "\n")
    idx,              \* position of the range loop over lines (1-based)
    sections,         \* the result slice built so far
    currentSection,   \* the section buffer under construction
    inConflict,       \* the inConflict flag
    ppc,              \* "start" | "loop" | "done"
    \* ---- validateBranchName (one call) ----
    vname,            \* the argument: the branch name
    vresult,          \* "pending", or the outcome: "nil" or the error
    \* ---- the git repository the commands act on ----
    repo,             \* head, refs, working tree, index, tool version
    \* ---- a direct call of a Repository method ----
    call,             \* the last call: method, argument, result, commands run
    \* ---- the Monitor ----
    mon,              \* lastRemoteCommit, lastSyncStatus, currentBranch, started
    cfg,              \* config.Config: AutoPull, AutoResolve
    tick,             \* what the last checkForChanges did
    \* ---- a resolution session (one call of ResolveConflicts) ----
    ses,              \* the loop position, the result, what was shown and run
    wt,               \* per file: the working content and the index entry
    env,              \* EDITOR, the programs on PATH, the configured editor
    \* ---- the threads of one Monitor ----
    life,             \* ctx, wg, the caller of Start/Stop, the polling goroutines
    \* ---- the history of the ticks of one Monitor ----
    hist,             \* what earlier ticks found (kept for the properties only)
    \* ---- the standard input of a scripted resolution session ----
    stdin,            \* the lines not yet read; empty at end of input
    \* ---- one call of sendStopSignal ----
    sig,              \* the position, the polls made, the signals sent, the process
    \* ---- the log file of one daemon and one call of cleanupLogFile ----
    logf              \* the lines and the size of the file, whether it exists

parseVars == <<content, lines, idx, sections, currentSection, inConflict, ppc>>
valVars == <<vname, vresult>>
monVars == <<mon, cfg, tick>>
sesVars == <<ses, wt, env>>

vars == <<parseVars, valVars, repo, call, monVars, sesVars, life, hist, stdin, sig, logf>>

\* the variables a specification of one component leaves alone
notParse == <<valVars, repo, call, monVars, sesVars, life, hist, stdin, sig, logf>>
notVal == <<parseVars, repo, call, monVars, sesVars, life, hist, stdin, sig, logf>>
notGit == <<parseVars, valVars, sesVars, life, hist, stdin, sig, logf>>
notSes == <<parseVars, valVars, repo, call, monVars, life, hist, stdin, sig, logf>>
notLife == <<parseVars, valVars, repo, call, monVars, sesVars, hist, stdin, sig, logf>>

----------------------------------------------------------------------------
(* Bounds *)

MaxLines == 4         \* free-form inputs have at most this many lines
MaxBlocks == 2        \* block-structured inputs have at most this many conflict blocks
MaxNameLen == 3       \* branch names given to validateBranchName have at most this many characters
MaxConflicts == 2     \* ResolveConflicts is given at most this many conflicts
MaxReprompts == 1     \* a session re-presents files at most this many times
MaxCalls == 4         \* Start and Stop are called at most this many times in all
MaxStarts == 2        \* at most this many calls of Start launch a polling goroutine
MaxTicks == 2         \* the tickers fire at most this many times in all
MaxScript == 2        \* an input script has at most this many lines
MaxLogLines == 2      \* a log file begins with at most this many lines of any kind

----------------------------------------------------------------------------
(* Text helpers: the Go strings package, character by character *)

Rep(c, n) == [i \in 1..n |-> c]

NL == "\n"

HasPrefix(s, p) == Len(s) >= Len(p) /\ SubSeq(s, 1, Len(p)) = p

HasSuffix(s, p) == Len(s) >= Len(p) /\ SubSeq(s, Len(s) - Len(p) + 1, Len(s)) = p

Contains(s, p) == \E i \in 1..(Len(s) - Len(p) + 1) : SubSeq(s, i, i + Len(p) - 1) = p

IsSpace(c) == c \in {" ", "\t", "\n", "\r"}

RECURSIVE TrimLeft(_)
TrimLeft(s) == IF s # <<>> /\ IsSpace(Head(s)) THEN TrimLeft(Tail(s)) ELSE s

RECURSIVE TrimRight(_)
TrimRight(s) ==
    IF s # <<>> /\ IsSpace(s[Len(s)]) THEN TrimRight(SubSeq(s, 1, Len(s) - 1)) ELSE s

TrimSpace(s) == TrimRight(TrimLeft(s))

\* strings.Split(s, "\n"): always at least one element; a trailing newline
\* yields a final empty element.
Split(s) ==
    LET nl == {i \in 1..Len(s) : s[i] = NL}
        n == Cardinality(nl)
        \* where the k-th newline is; the ends of the text count as newlines
        pos(k) == IF k = 0 THEN 0
                  ELSE IF k = n + 1 THEN Len(s) + 1
                  ELSE CHOOSE i \in nl : Cardinality({j \in nl : j < i}) = k - 1
    IN [k \in 1..(n + 1) |-> SubSeq(s, pos(k - 1) + 1, pos(k) - 1)]

\* strings.Join(ls, "\n"), used to build inputs
RECURSIVE Join(_)
Join(ls) ==
    IF ls = <<>> THEN <<>>
    ELSE IF Len(ls) = 1 THEN ls[1]
    ELSE ls[1] \o <<NL>> \o Join(Tail(ls))

RECURSIVE Flatten(_)
Flatten(ss) == IF ss = <<>> THEN <<>> ELSE Head(ss) \o Flatten(Tail(ss))

\* all sequences over S of length 0..n
SeqUpTo(S, n) == UNION {[1..k -> S] : k \in 0..n}

----------------------------------------------------------------------------
(* validateBranchName *)

\* regexp.MustCompile(`[;&|$(){}[\]<>'"\\]`): one character class
DangerousChars ==
    { ";", "&", "|", "$", "(", ")", "{", "}", "[", "]", "<", ">", "'", "\"", "\\" }

MatchesDangerous(branch) == \E i \in 1..Len(branch) : branch[i] \in DangerousChars

\* (variant: only the leading slash is tested)
validateBranchNamePrefixOnly(branch) ==
    IF branch = <<>> THEN "branch name cannot be empty"
    ELSE IF MatchesDangerous(branch) THEN "branch name contains invalid characters"
    ELSE IF HasPrefix(branch, <<"/">>)
        THEN "branch name cannot start or end with '/'"
    ELSE IF Contains(branch, <<".", ".">>) THEN "branch name cannot contain '..'"
    ELSE "nil"

\* the returned error message, or "nil"
validateBranchName(branch) ==
    IF branch = <<>> THEN "branch name cannot be empty"
    ELSE IF MatchesDangerous(branch) THEN "branch name contains invalid characters"
    ELSE IF HasPrefix(branch, <<"/">>) \/ HasSuffix(branch, <<"/">>)
        THEN "branch name cannot start or end with '/'"
    ELSE IF Contains(branch, <<".", ".">>) THEN "branch name cannot contain '..'"
    ELSE "nil"

Validate ==
    /\ vresult = "pending"
    /\ vresult' = validateBranchName(vname)
    /\ UNCHANGED vname
    /\ UNCHANGED notVal

NameAlphabet == DangerousChars \cup { "/", ".", "a", "-", " " }

ValInit ==
    /\ vname \in SeqUpTo(NameAlphabet, MaxNameLen)
    /\ vresult = "pending"

ValIdle ==
    /\ vname = <<>>
    /\ vresult = "idle"

ValNext == Validate

----------------------------------------------------------------------------
(* The repository behind the git commands.                                 *)
(*                                                                         *)
(* Two branches: "m" has an upstream, "f" has none.  Three commits:        *)
(* c1 is the root, c2 and c3 are children of c1.                           *)
(* Six files: between c2 and c3, f1 and f4 are changed differently on     *)
(* both sides (content conflicts), f2 is changed alike on both sides, f3   *)
(* is changed on one side only, f5 and f6 are deleted in c2 and modified   *)
(* in c3 (modify/delete conflicts).  Command output is text: a sequence   *)
(* of atoms (characters or whole words) with " " and "\n" between them.    *)

Main == <<"m">>
Feat == <<"f">>
Branches == {Main, Feat}
Origin == <<"o", "r", "i", "g", "i", "n", "/">>
HeadRef == <<"H", "E", "A", "D">>

Commits == {"c1", "c2", "c3"}
NoCommit == "none"
Parent == [c \in Commits |-> CASE c = "c1" -> NoCommit [] c = "c2" -> "c1"
                               [] c = "c3" -> "c1"]

RECURSIVE Ancestors(_)
Ancestors(c) == IF c = NoCommit THEN {} ELSE {c} \cup Ancestors(Parent[c])

Files == <<"f1", "f2", "f3", "f4", "f5", "f6">>
Absent == "absent"      \* the path does not exist in the commit
FileSet == {Files[i] : i \in 1..Len(Files)}
Tree == [c \in Commits |->
           CASE c = "c1" -> [f1 |-> "v0", f2 |-> "v0", f3 |-> "v0", f4 |-> "v0",
                             f5 |-> "v0", f6 |-> "v0"]
             [] c = "c2" -> [f1 |-> "v1", f2 |-> "v1", f3 |-> "v1", f4 |-> "v1",
                             f5 |-> Absent, f6 |-> Absent]
             [] c = "c3" -> [f1 |-> "v2", f2 |-> "v1", f3 |-> "v0", f4 |-> "v2",
                             f5 |-> "v2", f6 |-> "v2"]]

MergeBaseOf(a, b) ==
    CHOOSE c \in Ancestors(a) \cap Ancestors(b) :
        \A d \in Ancestors(a) \cap Ancestors(b) : d \in Ancestors(c)

\* the paths a three-way merge of ours and theirs cannot merge
UnmergeablePaths(ours, theirs) ==
    LET base == MergeBaseOf(ours, theirs) IN
    {f \in FileSet : /\ Tree[ours][f] # Tree[theirs][f]
                     /\ Tree[ours][f] # Tree[base][f]
                     /\ Tree[theirs][f] # Tree[base][f]}

\* the sub-sequence of Files that lies in S, in path order
RECURSIVE PathsIn(_, _)
PathsIn(S, i) ==
    IF i > Len(Files) THEN <<>>
    ELSE (IF Files[i] \in S THEN <<Files[i]>> ELSE <<>>) \o PathsIn(S, i + 1)

\* what a ref name resolves to
Resolve(r, ref) ==
    IF ref = HeadRef THEN r.localRef[r.head]
    ELSE IF ref \in Branches THEN r.localRef[ref]
    ELSE IF HasPrefix(ref, Origin) /\ SubSeq(ref, Len(Origin) + 1, Len(ref)) \in Branches
        THEN r.trackRef[SubSeq(ref, Len(Origin) + 1, Len(ref))]
    ELSE NoCommit

Cmd(name, args) == [name |-> name, args |-> args]

Out(exit, stdout, stderr, r) == [exit |-> exit, stdout |-> stdout, stderr |-> stderr, repo |-> r]

UnknownRevision == <<"fatal:", " ", "unknown revision", " ", "or path not in the working tree", NL>>

Digits == <<"0", "1", "2", "3", "4">>
Itoa(n) == Digits[n + 1]
Atoi(s) == CHOOSE n \in 0..(Len(Digits) - 1) : Digits[n + 1] = s

\* git rev-parse --abbrev-ref HEAD
GitCurrentBranch(r) == Out("0", r.head \o <<NL>>, <<>>, r)

\* git rev-parse <ref>
GitRevParse(r, ref) ==
    IF Resolve(r, ref) = NoCommit THEN Out("128", <<>>, UnknownRevision, r)
    ELSE Out("0", <<Resolve(r, ref), NL>>, <<>>, r)

\* git fetch --all: remote-tracking refs follow the remote when it is reachable
GitFetch(r, net) ==
    IF ~net THEN Out("128", <<>>, <<"fatal:", " ", "unable to access", NL>>, r)
    ELSE Out("0", <<>>, <<>>,
             [r EXCEPT !.trackRef = [b \in Branches |->
                  IF r.serverRef[b] # NoCommit THEN r.serverRef[b] ELSE r.trackRef[b]]])

ConflictLine(f) ==
    <<"CONFLICT", " ", "(content):", " ", "Merge", " ", "conflict", " ", "in", " ", f, NL>>

\* CONFLICT (modify/delete): <f> deleted in <branch> and modified in <branch>.
\* Version <branch> of <f> left in tree.
ModifyDeleteLine(f, deleted, modified) ==
    <<"CONFLICT", " ", "(modify/delete):", " ", f, " ", "deleted", " ", "in", " ">>
        \o deleted \o <<" ", "and", " ", "modified", " ", "in", " ">> \o modified
        \o <<".", " ", " ", "Version", " ">> \o modified
        \o <<" ", "of", " ", f, " ", "left", " ", "in", " ", "tree.", NL>>

\* the informational messages of merge-tree for an unmergeable path
MergeMessages(r, a, b, f) ==
    IF Tree[Resolve(r, a)][f] = Absent THEN ModifyDeleteLine(f, a, b)
    ELSE IF Tree[Resolve(r, b)][f] = Absent THEN ModifyDeleteLine(f, b, a)
    ELSE <<"Auto-merging", " ", f, NL>> \o ConflictLine(f)

\* git merge-tree --write-tree --name-only <a> <b>: reads objects only
GitMergeTree(r, a, b) ==
    IF ~r.mergeTree
        THEN Out("129", <<>>, <<"usage:", " ", "git merge-tree <base-tree> <branch1> <branch2>", NL>>, r)
    ELSE IF Resolve(r, a) = NoCommit \/ Resolve(r, b) = NoCommit
        THEN Out("128", <<>>, <<"merge-tree:", " ", "not something we can merge", NL>>, r)
    ELSE LET un == PathsIn(UnmergeablePaths(Resolve(r, a), Resolve(r, b)), 1) IN
         IF un = <<>> THEN Out("0", <<"tree", NL>>, <<>>, r)
         ELSE Out("1",
                  <<"tree", NL>> \o Flatten([i \in 1..Len(un) |-> <<un[i], NL>>]) \o <<NL>>
                      \o Flatten([i \in 1..Len(un) |-> MergeMessages(r, a, b, un[i])]),
                  <<>>, r)

\* git merge-base <a> <b>
GitMergeBase(r, a, b) ==
    IF Resolve(r, a) = NoCommit \/ Resolve(r, b) = NoCommit
        THEN Out("128", <<>>, <<"fatal:", " ", "Not a valid object name", NL>>, r)
    ELSE Out("0", <<MergeBaseOf(Resolve(r, a), Resolve(r, b)), NL>>, <<>>, r)

\* a commit id or a ref name, as a git argument
CommitOrRef(r, x) == IF Len(x) = 1 /\ x[1] \in Commits THEN x[1] ELSE Resolve(r, x)

\* git diff --name-only <a> <b>
GitDiffNames(r, a, b) ==
    IF CommitOrRef(r, a) = NoCommit \/ CommitOrRef(r, b) = NoCommit
        THEN Out("128", <<>>, UnknownRevision, r)
    ELSE LET ch == PathsIn({f \in FileSet :
                       Tree[CommitOrRef(r, a)][f] # Tree[CommitOrRef(r, b)][f]}, 1)
         IN Out("0", Flatten([i \in 1..Len(ch) |-> <<ch[i], NL>>]), <<>>, r)

\* git show <rev>:<file>
GitShow(r, rev, file) ==
    IF CommitOrRef(r, rev) = NoCommit THEN Out("128", <<>>, UnknownRevision, r)
    ELSE IF Tree[CommitOrRef(r, rev)][file] = Absent
        THEN Out("128", <<>>, <<"fatal:", " ", "path does not exist", NL>>, r)
    ELSE Out("0", <<Tree[CommitOrRef(r, rev)][file], NL>>, <<>>, r)

\* git rev-list --count <a>..<b>
GitRevListCount(r, a, b) ==
    IF Resolve(r, a) = NoCommit \/ Resolve(r, b) = NoCommit
        THEN Out("128", <<>>, UnknownRevision, r)
    ELSE Out("0", <<Itoa(Cardinality(Ancestors(Resolve(r, b)) \ Ancestors(Resolve(r, a)))), NL>>,
             <<>>, r)

\* git status --porcelain
GitStatus(r) ==
    Out("0", IF r.worktree = "clean" THEN <<>> ELSE <<"M", " ", "f1", NL>>, <<>>, r)

\* git config branch.<b>.remote
GitConfigRemote(r, b) ==
    IF b = Main THEN Out("0", <<"origin", NL>>, <<>>, r) ELSE Out("1", <<>>, <<>>, r)

\* git pull: fetch, then merge the upstream of the current branch into it
GitPull(r, net) ==
    LET f == GitFetch(r, net)
        local == f.repo.localRef[f.repo.head]
        remote == f.repo.trackRef[f.repo.head]
    IN IF f.exit # "0" THEN Out("1", <<>>, f.stderr, r)
       ELSE IF remote = NoCommit
           THEN Out("1", <<>>, <<"There is no tracking information for the current branch.", NL>>, f.repo)
       ELSE IF remote \in Ancestors(local)
           THEN Out("0", <<"Already up to date.", NL>>, <<>>, f.repo)
       ELSE IF local \in Ancestors(remote)
           THEN Out("0", <<"Fast-forward", NL>>, <<>>,
                    [f.repo EXCEPT !.localRef[f.repo.head] = remote])
       ELSE \* diverged: in this repository every divergence has an unmergeable path
            Out("1", <<"Automatic merge failed; fix conflicts and then commit the result.", NL>>,
                <<>>, [f.repo EXCEPT !.worktree = "conflicted", !.index = "unmerged"])

\* git merge --no-commit --no-ff <b> (not run by the program; see the variants)
GitMerge(r, b) ==
    IF Resolve(r, b) = NoCommit THEN Out("1", <<>>, <<"merge:", " ", "not something we can merge", NL>>, r)
    ELSE IF UnmergeablePaths(Resolve(r, HeadRef), Resolve(r, b)) = {}
        THEN Out("0", <<>>, <<>>, [r EXCEPT !.worktree = "merging", !.index = "staged"])
    ELSE Out("1", <<>>, <<>>, [r EXCEPT !.worktree = "conflicted", !.index = "unmerged"])

\* the commands that change the working tree, the index or a branch
MutatingCommands == {"merge", "checkout", "reset", "add", "pull", "commit", "stash", "rebase"}

----------------------------------------------------------------------------
(* Repository methods.  Each yields its return value, its error (<<>> is   *)
(* nil, otherwise the message), the commands it ran, and the repository    *)
(* those commands left behind.                                             *)

NoErr == <<>>

Res(val, err, log, r) == [val |-> val, err |-> err, log |-> log, repo |-> r]

\* the text of the error of a command that exited non-zero: (*exec.ExitError)
\* prints the exit status; what the command wrote to stderr is not part of it
ExitErrorString(g) == <<"exit status ", g.exit>>

\* strings.Fields: the words of a line
RECURSIVE FieldsFrom(_, _, _)
FieldsFrom(s, i, cur) ==
    IF i > Len(s) THEN (IF cur = <<>> THEN <<>> ELSE <<cur>>)
    ELSE IF IsSpace(s[i])
        THEN (IF cur = <<>> THEN <<>> ELSE <<cur>>) \o FieldsFrom(s, i + 1, <<>>)
    ELSE FieldsFrom(s, i + 1, cur \o <<s[i]>>)

Fields(s) == FieldsFrom(s, 1, <<>>)

GetCurrentBranch(r) ==
    LET g == GitCurrentBranch(r)
        log == <<Cmd("rev-parse", <<"--abbrev-ref", HeadRef>>)>>
    IN IF g.exit # "0"
       THEN Res(<<>>, <<"failed to get current branch: ">> \o ExitErrorString(g), log, g.repo)
       ELSE Res(TrimSpace(g.stdout), NoErr, log, g.repo)

Fetch(r, net) ==
    LET g == GitFetch(r, net)
        log == <<Cmd("fetch", <<"--all">>)>>
    IN IF g.exit # "0"
       THEN Res(<<>>, <<"failed to fetch: ">> \o ExitErrorString(g), log, g.repo)
       ELSE Res(<<>>, NoErr, log, g.repo)

GetRemoteCommit(r, branch) ==
    IF validateBranchName(branch) # "nil"
    THEN Res(<<>>, <<"invalid branch name: ", validateBranchName(branch)>>, <<>>, r)
    ELSE LET g == GitRevParse(r, Origin \o branch)
             log == <<Cmd("rev-parse", <<Origin \o branch>>)>>
         IN IF g.exit # "0"
            THEN Res(<<>>, <<"failed to get remote commit: ">> \o ExitErrorString(g), log, g.repo)
            ELSE Res(TrimSpace(g.stdout), NoErr, log, g.repo)

GetLocalCommit(r, branch) ==
    IF validateBranchName(branch) # "nil"
    THEN Res(<<>>, <<"invalid branch name: ", validateBranchName(branch)>>, <<>>, r)
    ELSE LET g == GitRevParse(r, branch)
             log == <<Cmd("rev-parse", <<branch>>)>>
         IN IF g.exit # "0"
            THEN Res(<<>>, <<"failed to get local commit: ">> \o ExitErrorString(g), log, g.repo)
            ELSE Res(TrimSpace(g.stdout), NoErr, log, g.repo)

Conflict(file, text) == [File |-> file, Content |-> text]

\* the first word after a word "in", if any, of a line that reports a conflict
RECURSIVE ConflictOfParts(_, _, _)
ConflictOfParts(parts, i, line) ==
    IF i > Len(parts) THEN <<>>
    ELSE IF parts[i] = <<"in">> /\ i + 1 <= Len(parts)
        THEN <<Conflict(parts[i + 1], line)>>
    ELSE ConflictOfParts(parts, i + 1, line)

RECURSIVE ConflictsOfLines(_, _)
ConflictsOfLines(ls, i) ==
    IF i > Len(ls) THEN <<>>
    ELSE (IF Contains(ls[i], <<"CONFLICT">>)
          THEN ConflictOfParts(Fields(ls[i]), 1, ls[i]) ELSE <<>>)
         \o ConflictsOfLines(ls, i + 1)

parseConflictsFromMergeTree(output) == ConflictsOfLines(Split(output), 1)

\* the non-empty lines of a command's output
NonEmptyLines(out) == SelectSeq(Split(out), LAMBDA l : l # <<>>)

\* (variant: a path changed on both sides is reported even when both sides
\* made the same change)
ActualConflictAnyChange(ourContent, theirContent, baseContent) ==
    ourContent # baseContent /\ theirContent # baseContent

\* both branches modified the same file differently
ActualConflict(ourContent, theirContent, baseContent) ==
    /\ ourContent # theirContent
    /\ (ourContent # baseContent /\ theirContent # baseContent)

\* the loop over potentialConflicts: three git show per path, errors ignored
RECURSIVE DiffConflicts(_, _, _, _, _)
DiffConflicts(r, base, target, paths, i) ==
    IF i > Len(paths) THEN [conflicts |-> <<>>, log |-> <<>>]
    ELSE LET file == paths[i]
             baseContent == GitShow(r, base, file[1]).stdout
             ourContent == GitShow(r, HeadRef, file[1]).stdout
             theirContent == GitShow(r, target, file[1]).stdout
             rest == DiffConflicts(r, base, target, paths, i + 1)
             here == IF ActualConflict(ourContent, theirContent, baseContent)
                     THEN <<Conflict(file, <<"Potential conflict in ">> \o file \o <<NL>>)>>
                     ELSE <<>>
         IN [conflicts |-> here \o rest.conflicts,
             log |-> <<Cmd("show", <<base, file>>), Cmd("show", <<HeadRef, file>>),
                       Cmd("show", <<target, file>>)>> \o rest.log]

checkConflictsWithDiff(r, targetBranch) ==
    LET mb == GitMergeBase(r, HeadRef, targetBranch)
        log1 == <<Cmd("merge-base", <<HeadRef, targetBranch>>)>>
        mergeBaseStr == TrimSpace(mb.stdout)
        ours == GitDiffNames(r, mergeBaseStr, HeadRef)
        log2 == log1 \o <<Cmd("diff", <<"--name-only", mergeBaseStr, HeadRef>>)>>
        theirs == GitDiffNames(r, mergeBaseStr, targetBranch)
        log3 == log2 \o <<Cmd("diff", <<"--name-only", mergeBaseStr, targetBranch>>)>>
        ourSet == {NonEmptyLines(ours.stdout)[i] : i \in 1..Len(NonEmptyLines(ours.stdout))}
        potentialConflicts == SelectSeq(NonEmptyLines(theirs.stdout), LAMBDA f : f \in ourSet)
        found == DiffConflicts(r, mergeBaseStr, targetBranch, potentialConflicts, 1)
    IN IF mb.exit # "0"
       THEN Res(<<>>, <<"failed to get merge base: ">> \o ExitErrorString(mb), log1, r)
       ELSE IF ours.exit # "0"
       THEN Res(<<>>, <<"failed to get our changed files: ">> \o ExitErrorString(ours), log2, r)
       ELSE IF theirs.exit # "0"
       THEN Res(<<>>, <<"failed to get their changed files: ">> \o ExitErrorString(theirs), log3, r)
       ELSE Res(found.conflicts, NoErr, log3 \o found.log, r)

\* (variant: the fallback is a scratch merge in the working tree)
checkConflictsWithScratchMerge(r, targetBranch) ==
    LET m == GitMerge(r, targetBranch)
        un == PathsIn(UnmergeablePaths(Resolve(r, HeadRef), Resolve(r, targetBranch)), 1)
    IN IF Resolve(r, targetBranch) = NoCommit
       THEN Res(<<>>, <<"failed to merge: ">> \o ExitErrorString(m),
                <<Cmd("merge", <<"--no-commit", targetBranch>>)>>, m.repo)
       ELSE Res([i \in 1..Len(un) |-> Conflict(<<un[i]>>, <<>>)], NoErr,
                <<Cmd("merge", <<"--no-commit", targetBranch>>)>>, m.repo)

\* what CheckForConflicts does once merge-tree proved unsupported
MergeTreeFallback(r, targetBranch) == checkConflictsWithDiff(r, targetBranch)

\* (variant: an unsupported merge-tree is reported like any other failure)
CheckForConflictsNoFallback(r, targetBranch) ==
    IF validateBranchName(targetBranch) # "nil"
    THEN Res(<<>>, <<"invalid target branch name: ", validateBranchName(targetBranch)>>, <<>>, r)
    ELSE
    LET cb == GetCurrentBranch(r)
        mt == GitMergeTree(cb.repo, cb.val, targetBranch)
        log == cb.log \o <<Cmd("merge-tree", <<"--write-tree", "--name-only", cb.val, targetBranch>>)>>
    IN IF cb.err # NoErr
       THEN Res(<<>>, <<"failed to get current branch: ">> \o cb.err, cb.log, cb.repo)
       ELSE IF mt.exit # "0"
       THEN IF Contains(mt.stdout, <<"CONFLICT">>)
            THEN Res(parseConflictsFromMergeTree(mt.stdout), NoErr, log, mt.repo)
            ELSE Res(<<>>, <<"merge-tree failed: ">> \o ExitErrorString(mt), log, mt.repo)
       ELSE IF Contains(mt.stdout, <<"CONFLICT">>)
       THEN Res(parseConflictsFromMergeTree(mt.stdout), NoErr, log, mt.repo)
       ELSE Res(<<>>, NoErr, log, mt.repo)

CheckForConflicts(r, targetBranch) ==
    IF validateBranchName(targetBranch) # "nil"
    THEN Res(<<>>, <<"invalid target branch name: ", validateBranchName(targetBranch)>>, <<>>, r)
    ELSE
    LET cb == GetCurrentBranch(r)
        mt == GitMergeTree(cb.repo, cb.val, targetBranch)
        log == cb.log \o <<Cmd("merge-tree", <<"--write-tree", "--name-only", cb.val, targetBranch>>)>>
        fb == MergeTreeFallback(mt.repo, targetBranch)
    IN IF cb.err # NoErr
       THEN Res(<<>>, <<"failed to get current branch: ">> \o cb.err, cb.log, cb.repo)
       ELSE IF mt.exit # "0"
       THEN IF Contains(mt.stderr, <<"unknown option">>) \/ Contains(mt.stderr, <<"usage:">>)
            THEN Res(fb.val, fb.err, log \o fb.log, fb.repo)
            ELSE IF Contains(mt.stdout, <<"CONFLICT">>)
            THEN Res(parseConflictsFromMergeTree(mt.stdout), NoErr, log, mt.repo)
            ELSE Res(<<>>, <<"merge-tree failed: ">> \o ExitErrorString(mt), log, mt.repo)
       ELSE IF Contains(mt.stdout, <<"CONFLICT">>)
       THEN Res(parseConflictsFromMergeTree(mt.stdout), NoErr, log, mt.repo)
       ELSE Res(<<>>, NoErr, log, mt.repo)

\* (variant: the fetch comes before the validation)
IsInSyncFetchFirst(r, branch, net) ==
    LET f == Fetch(r, net)
    IN IF f.err # NoErr
       THEN Res(FALSE, <<"failed to fetch: ">> \o f.err, f.log, f.repo)
       ELSE IF validateBranchName(branch) # "nil"
       THEN Res(FALSE, <<"invalid branch name: ", validateBranchName(branch)>>, f.log, f.repo)
       ELSE LET l == GetLocalCommit(f.repo, branch)
                rc == GetRemoteCommit(l.repo, branch)
            IN IF l.err # NoErr THEN Res(FALSE, l.err, f.log \o l.log, l.repo)
               ELSE IF rc.err # NoErr THEN Res(FALSE, rc.err, f.log \o l.log \o rc.log, rc.repo)
               ELSE Res(l.val = rc.val, NoErr, f.log \o l.log \o rc.log, rc.repo)

IsInSync(r, branch, net) ==
    IF validateBranchName(branch) # "nil"
    THEN Res(FALSE, <<"invalid branch name: ", validateBranchName(branch)>>, <<>>, r)
    ELSE
    LET f == Fetch(r, net)
        l == GetLocalCommit(f.repo, branch)
        rc == GetRemoteCommit(l.repo, branch)
    IN IF f.err # NoErr
       THEN Res(FALSE, <<"failed to fetch: ">> \o f.err, f.log, f.repo)
       ELSE IF l.err # NoErr
       THEN Res(FALSE, l.err, f.log \o l.log, l.repo)
       ELSE IF rc.err # NoErr
       THEN IF Contains(rc.err, <<"unknown revision">>)
            THEN Res(TRUE, NoErr, f.log \o l.log \o rc.log, rc.repo)
            ELSE Res(FALSE, rc.err, f.log \o l.log \o rc.log, rc.repo)
       ELSE Res(l.val = rc.val, NoErr, f.log \o l.log \o rc.log, rc.repo)

\* the value is <<behind?, count>>
IsBehindRemote(r, branch) ==
    IF validateBranchName(branch) # "nil"
    THEN Res(<<FALSE, 0>>, <<"invalid branch name: ", validateBranchName(branch)>>, <<>>, r)
    ELSE
    LET g == GitRevListCount(r, branch, Origin \o branch)
        log == <<Cmd("rev-list", <<"--count", branch \o <<".", ".">> \o Origin \o branch>>)>>
        countStr == TrimSpace(g.stdout)
        count == IF countStr # <<>> THEN Atoi(countStr[1]) ELSE 0
    IN IF g.exit # "0"
       THEN IF Contains(ExitErrorString(g), <<"unknown revision">>)
            THEN Res(<<FALSE, 0>>, NoErr, log, g.repo)
            ELSE Res(<<FALSE, 0>>, <<"failed to check if behind remote: ">> \o ExitErrorString(g),
                     log, g.repo)
       ELSE Res(<<count > 0, count>>, NoErr, log, g.repo)

\* the value is <<ahead?, count>>
IsAheadOfRemote(r, branch) ==
    IF validateBranchName(branch) # "nil"
    THEN Res(<<FALSE, 0>>, <<"invalid branch name: ", validateBranchName(branch)>>, <<>>, r)
    ELSE
    LET g == GitRevListCount(r, Origin \o branch, branch)
        log == <<Cmd("rev-list", <<"--count", Origin \o branch \o <<".", ".">> \o branch>>)>>
        countStr == TrimSpace(g.stdout)
        count == IF countStr # <<>> THEN Atoi(countStr[1]) ELSE 0
    IN IF g.exit # "0"
       THEN IF Contains(ExitErrorString(g), <<"unknown revision">>)
            THEN Res(<<FALSE, 0>>, NoErr, log, g.repo)
            ELSE Res(<<FALSE, 0>>, <<"failed to check if ahead of remote: ">> \o ExitErrorString(g),
                     log, g.repo)
       ELSE Res(<<count > 0, count>>, NoErr, log, g.repo)

HasUncommittedChanges(r) ==
    LET g == GitStatus(r)
        log == <<Cmd("status", <<"--porcelain">>)>>
    IN IF g.exit # "0"
       THEN Res(FALSE, <<"failed to check status: ">> \o ExitErrorString(g), log, g.repo)
       ELSE Res(Len(TrimSpace(g.stdout)) > 0, NoErr, log, g.repo)

\* (variant: git pull is run without looking at the working tree)
PullUnchecked(r, net) ==
    LET g == GitPull(r, net)
        log == <<Cmd("pull", <<>>)>>
    IN IF g.exit # "0"
       THEN Res(<<>>, <<"failed to pull: ">> \o ExitErrorString(g) \o <<" - ">> \o g.stderr,
                log, g.repo)
       ELSE Res(<<>>, NoErr, log, g.repo)

Pull(r, net) ==
    LET h == HasUncommittedChanges(r)
        g == GitPull(h.repo, net)
        log == h.log \o <<Cmd("pull", <<>>)>>
    IN IF h.err # NoErr THEN Res(<<>>, h.err, h.log, h.repo)
       ELSE IF h.val
       THEN Res(<<>>, <<"cannot pull: uncommitted changes in working directory">>, h.log, h.repo)
       ELSE IF g.exit # "0"
       THEN Res(<<>>, <<"failed to pull: ">> \o ExitErrorString(g) \o <<" - ">> \o g.stderr,
                log, g.repo)
       ELSE Res(<<>>, NoErr, log, g.repo)

GetRemoteName(r, branch) ==
    IF validateBranchName(branch) # "nil"
    THEN Res(<<>>, <<"invalid branch name: ", validateBranchName(branch)>>, <<>>, r)
    ELSE
    LET g == GitConfigRemote(r, branch)
        log == <<Cmd("config", <<<<"branch.">> \o branch \o <<".remote">>>>)>>
    IN IF g.exit # "0" THEN Res(<<"origin">>, NoErr, log, g.repo)
       ELSE Res(TrimSpace(g.stdout), NoErr, log, g.repo)

----------------------------------------------------------------------------
(* What happens to the repository from outside the program, between the    *)
(* program's own operations                                                *)

\* somebody pushes to the remote branch
EnvPush ==
    /\ call.op = "none" /\ ~tick.ran
    /\ \E c \in Commits \ {repo.serverRef[Main]} :
          repo' = [repo EXCEPT !.serverRef[Main] = c]
    /\ UNCHANGED <<call, monVars, notGit>>

\* the user commits on the current branch
EnvCommit ==
    /\ call.op = "none" /\ ~tick.ran
    /\ repo.head = Main
    /\ repo.worktree # "conflicted"
    /\ \E c \in Commits \ {repo.localRef[Main]} :
          /\ repo.localRef[Main] \in Ancestors(c)
          /\ repo' = [repo EXCEPT !.localRef[Main] = c, !.worktree = "clean", !.index = "clean"]
    /\ UNCHANGED <<call, monVars, notGit>>

\* the user resets the current branch to an earlier commit
EnvReset ==
    /\ call.op = "none" /\ ~tick.ran
    /\ repo.head = Main
    /\ \E c \in Ancestors(repo.localRef[Main]) \ {repo.localRef[Main]} :
          repo' = [repo EXCEPT !.localRef[Main] = c, !.worktree = "clean", !.index = "clean"]
    /\ UNCHANGED <<call, monVars, notGit>>

\* the user switches branches
EnvCheckout ==
    /\ call.op = "none" /\ ~tick.ran
    /\ repo.worktree # "conflicted"
    /\ \E b \in Branches \ {repo.head} : repo' = [repo EXCEPT !.head = b]
    /\ UNCHANGED <<call, monVars, notGit>>

\* the user edits a tracked file, or discards the edits, or aborts a merge
EnvEdit ==
    /\ call.op = "none" /\ ~tick.ran
    /\ \/ repo.worktree = "clean" /\ repo' = [repo EXCEPT !.worktree = "dirty"]
       \/ repo.worktree = "dirty" /\ repo' = [repo EXCEPT !.worktree = "clean"]
       \/ repo.worktree = "conflicted"
            /\ repo' = [repo EXCEPT !.worktree = "clean", !.index = "clean"]
    /\ UNCHANGED <<call, monVars, notGit>>

RepoInit ==
    /\ \E mt \in BOOLEAN :
         repo = [head |-> Main,
                 localRef |-> [b \in Branches |-> "c1"],
                 trackRef |-> [b \in Branches |-> IF b = Main THEN "c1" ELSE NoCommit],
                 serverRef |-> [b \in Branches |-> IF b = Main THEN "c1" ELSE NoCommit],
                 worktree |-> "clean",
                 index |-> "clean",
                 mergeTree |-> mt]

----------------------------------------------------------------------------
(* Direct calls of the Repository methods *)

\* branch-name arguments: existing and unknown branches, remote-tracking
\* names, and names that validation must refuse
ArgNames ==
    { Main, Feat, Origin \o Main, Origin \o Feat, <<"x">>,
      <<>>,
      <<"f", ";", "r", "m", " ", "-", "r", "f">>,
      <<"/", "m">>,
      <<"m", "/">>,
      <<"m", ".", ".", "f">> }

\* a call is made when no result is outstanding
\* val holds the returned value as a one-element tuple
Called(op, arg, res) ==
    /\ call.op = "none"
    /\ call' = [op |-> op, arg |-> arg, val |-> <<res.val>>, err |-> res.err, log |-> res.log]
    /\ repo' = res.repo
    /\ UNCHANGED <<monVars, notGit>>

CallGetRemoteCommit == \E b \in ArgNames : Called("GetRemoteCommit", b, GetRemoteCommit(repo, b))

CallGetLocalCommit == \E b \in ArgNames : Called("GetLocalCommit", b, GetLocalCommit(repo, b))

CallCheckForConflicts ==
    \E b \in ArgNames : Called("CheckForConflicts", b, CheckForConflicts(repo, b))

CallIsInSync ==
    \E b \in ArgNames, net \in BOOLEAN : Called("IsInSync", b, IsInSync(repo, b, net))

CallIsBehindRemote == \E b \in ArgNames : Called("IsBehindRemote", b, IsBehindRemote(repo, b))

CallIsAheadOfRemote == \E b \in ArgNames : Called("IsAheadOfRemote", b, IsAheadOfRemote(repo, b))

CallGetRemoteName == \E b \in ArgNames : Called("GetRemoteName", b, GetRemoteName(repo, b))

CallPull == \E net \in BOOLEAN : Called("Pull", <<>>, Pull(repo, net))

NoCall == [op |-> "none", arg |-> <<>>, val |-> <<>>, err |-> NoErr, log |-> <<>>]

CallInit == call = NoCall

\* the caller has taken the result
CallReturn ==
    /\ call.op # "none"
    /\ call' = NoCall
    /\ UNCHANGED <<repo, monVars, notGit>>

\* what one checkForChanges did: its error, the commands it ran, the
\* notifications it sent, and what its sync evaluation saw
NoTick ==
    [ran |-> FALSE, err |-> NoErr, log |-> <<>>, notes |-> <<>>, branch |-> <<>>,
     evaluated |-> FALSE, inSync |-> FALSE, local |-> <<>>, remote |-> <<>>,
     checked |-> FALSE, conflicts |-> <<>>, session |-> FALSE]

MonIdle ==
    /\ mon = [lastRemoteCommit |-> <<>>, lastSyncStatus |-> FALSE,
              currentBranch |-> <<>>, started |-> FALSE]
    /\ cfg = [AutoPull |-> FALSE, AutoResolve |-> FALSE]
    /\ tick = NoTick

RepoNext ==
    \/ CallGetRemoteCommit
    \/ CallGetLocalCommit
    \/ CallCheckForConflicts
    \/ CallIsInSync
    \/ CallIsBehindRemote
    \/ CallIsAheadOfRemote
    \/ CallGetRemoteName
    \/ CallPull
    \/ CallReturn
    \/ EnvPush
    \/ EnvCommit
    \/ EnvReset
    \/ EnvCheckout
    \/ EnvEdit

----------------------------------------------------------------------------
(* The Monitor: Start and one iteration of monitorLoop (checkForChanges)   *)

Step(r, log, notes) == [repo |-> r, log |-> log, notes |-> notes]

\* the outcomes of an interactive resolution session, as far as the
\* repository is concerned
SessionOutcomes == {"skipped", "applied", "edited"}

SessionEffect(r, outcome) ==
    IF outcome = "applied" /\ r.index = "unmerged"
        THEN [r EXCEPT !.worktree = "dirty", !.index = "staged"]
    ELSE IF outcome = "edited" /\ r.worktree = "clean"
        THEN [r EXCEPT !.worktree = "dirty"]
    ELSE r

attemptAutoPull(r, branch, commitCount, net) ==
    LET h == HasUncommittedChanges(r)
        p == Pull(h.repo, net)
    IN IF h.err # NoErr
       THEN [Step(h.repo, h.log, <<>>) EXCEPT !.log = h.log]
       ELSE IF h.val THEN Step(h.repo, h.log, <<>>)
       ELSE IF p.err # NoErr THEN Step(p.repo, h.log \o p.log, <<>>)
       ELSE Step(p.repo, h.log \o p.log, <<"AutoPull">>)

\* (variant, the earlier revision: the resolution session is always launched)
handleConflictsAlwaysResolve(c, r, conflicts, outcome) ==
    [Step(SessionEffect(r, outcome), <<>>, <<"Conflicts">>) EXCEPT !.log = <<>>]
        @@ [session |-> TRUE]

\* the result carries whether the resolution session was launched
handleConflicts(c, r, conflicts, outcome) ==
    IF c.AutoResolve
    THEN [Step(SessionEffect(r, outcome), <<>>, <<"Conflicts">>) EXCEPT !.log = <<>>]
            @@ [session |-> TRUE]
    ELSE Step(r, <<>>, <<"Conflicts">>) @@ [session |-> FALSE]

\* (variant: conflicts are checked whenever the remote commit changed)
ShouldCheckConflictsOnRemoteChange(m, inSync, remoteCommit) ==
    remoteCommit # m.lastRemoteCommit /\ m.lastRemoteCommit # <<>>

\* if !inSync
ShouldCheckConflicts(m, inSync, remoteCommit) == ~inSync

\* the commit ids IsInSync compared
ObservedLocal(r, branch) == <<Resolve(r, branch)>>
ObservedRemote(r, branch) == <<Resolve(r, Origin \o branch)>>

\* what a tick leaves behind: the monitor's fields, the repository, its record
TickResult(m, r, t) == [mon |-> m, repo |-> r, tick |-> t]

\* m.lastSyncStatus = inSync; return nil
endTick(m, r, t) == TickResult([m EXCEPT !.lastSyncStatus = t.inSync], r, t)

\* m.handleConflicts(conflicts) has run
reportConflicts(m, t, hc) ==
    endTick(m, hc.repo, [t EXCEPT !.notes = @ \o hc.notes, !.session = hc.session])

\* CheckForConflicts has returned cf
checkConflicts(m, c, t, cf, outcome) ==
    IF cf.err = NoErr /\ Len(cf.val) > 0
    THEN reportConflicts(m, [t EXCEPT !.log = @ \o cf.log, !.conflicts = cf.val],
                         handleConflicts(c, cf.repo, cf.val, outcome))
    ELSE endTick(m, cf.repo, [t EXCEPT !.log = @ \o cf.log])

\* the auto-pull, if any, is over
checkNotInSync(m, c, t, pull, outcome) ==
    IF ShouldCheckConflicts(m, t.inSync, t.remote)
    THEN checkConflicts(m, c,
                        [t EXCEPT !.log = @ \o pull.log, !.notes = @ \o pull.notes,
                                  !.checked = TRUE],
                        CheckForConflicts(pull.repo, Origin \o t.branch), outcome)
    ELSE endTick(m, pull.repo, [t EXCEPT !.log = @ \o pull.log, !.notes = @ \o pull.notes])

\* IsBehindRemote has returned bh
checkBehind(m, c, t, bh, net, outcome) ==
    IF bh.err = NoErr /\ bh.val[1]
    THEN checkNotInSync(m, c,
                        [t EXCEPT !.log = @ \o bh.log, !.notes = @ \o <<"BehindRemote">>],
                        IF c.AutoPull
                        THEN attemptAutoPull(bh.repo, t.branch, bh.val[2], net)
                        ELSE Step(bh.repo, <<>>, <<>>),
                        outcome)
    ELSE checkNotInSync(m, c, [t EXCEPT !.log = @ \o bh.log],
                        Step(bh.repo, <<>>, <<>>), outcome)

\* (variant: the notification is sent on every in-sync tick)
ShouldNotifyInSyncAlways(m, inSync) == inSync

\* if inSync && !m.lastSyncStatus
ShouldNotifyInSync(m, inSync) == inSync /\ ~m.lastSyncStatus

\* IsInSync has returned sync
checkSync(m, c, branch, log, sync, net, outcome) ==
    IF sync.err # NoErr
    THEN TickResult(m, sync.repo,
                    [NoTick EXCEPT !.ran = TRUE, !.branch = branch, !.log = log \o sync.log])
    ELSE checkBehind(m, c,
                     [NoTick EXCEPT
                         !.ran = TRUE, !.branch = branch, !.evaluated = TRUE,
                         !.inSync = sync.val,
                         !.local = ObservedLocal(sync.repo, branch),
                         !.remote = ObservedRemote(sync.repo, branch),
                         !.log = log \o sync.log,
                         !.notes = IF ShouldNotifyInSync(m, sync.val)
                                   THEN <<"InSync">> ELSE <<>>],
                     IsBehindRemote(sync.repo, branch), net, outcome)

\* (variant: the branch is recorded but the tracking is not reset)
noteBranchNoReset(m, branch) == [m EXCEPT !.currentBranch = branch]

\* the branch-switch test and m.currentBranch = branch
noteBranch(m, branch) ==
    IF m.currentBranch # <<>> /\ m.currentBranch # branch
    THEN [m EXCEPT !.lastRemoteCommit = <<>>, !.lastSyncStatus = FALSE,
                   !.currentBranch = branch]
    ELSE [m EXCEPT !.currentBranch = branch]

\* GetCurrentBranch has returned cb
checkBranch(m, c, log, cb, net2, net3, outcome) ==
    IF cb.err # NoErr
    THEN TickResult(m, cb.repo,
                    [NoTick EXCEPT !.ran = TRUE, !.log = log \o cb.log,
                                   !.err = <<"failed to get current branch: ">> \o cb.err])
    ELSE checkSync(noteBranch(m, cb.val), c, cb.val, log \o cb.log,
                   IsInSync(cb.repo, cb.val, net2), net3, outcome)

\* Fetch has returned f
checkFetched(m, c, f, net2, net3, outcome) ==
    IF f.err # NoErr
    THEN TickResult(m, f.repo,
                    [NoTick EXCEPT !.ran = TRUE, !.log = f.log,
                                   !.err = <<"failed to fetch: ">> \o f.err])
    ELSE checkBranch(m, c, f.log, GetCurrentBranch(f.repo), net2, net3, outcome)

\* net1, net2, net3: whether the remote is reachable at the three fetches
\* (a fetch that is never reached has no outcome to choose);
\* outcome: what a resolution session launched by this tick ends in
checkForChanges(m, c, r, net1, net2, net3, outcome) ==
    checkFetched(m, c, Fetch(r, net1), net2, net3, outcome)

\* Monitor.Start: the initial state, then the polling goroutine is launched
Start ==
    /\ ~mon.started
    /\ call.op = "none"
    /\ \E net \in BOOLEAN :
         LET cb == GetCurrentBranch(repo)
             f == Fetch(cb.repo, net)
             rc == GetRemoteCommit(f.repo, cb.val)
         IN IF cb.err # NoErr \/ f.err # NoErr
            THEN /\ repo' = f.repo
                 /\ UNCHANGED mon
            ELSE /\ repo' = rc.repo
                 /\ mon' = [mon EXCEPT !.started = TRUE,
                                       !.lastRemoteCommit =
                                           IF rc.err # NoErr THEN @ ELSE rc.val]
    /\ UNCHANGED <<cfg, tick, call, notGit>>

\* case <-ticker.C: checkForChanges()
Tick ==
    /\ mon.started
    /\ ~tick.ran
    /\ \E net1 \in BOOLEAN :
       \E net2 \in (IF net1 THEN BOOLEAN ELSE {FALSE}) :
       \E net3 \in (IF net2 THEN BOOLEAN ELSE {FALSE}) :
       \E outcome \in (IF cfg.AutoResolve /\ net2 THEN SessionOutcomes ELSE {"skipped"}) :
         LET t == checkForChanges(mon, cfg, repo, net1, net2, net3, outcome)
         IN /\ mon' = t.mon
            /\ repo' = t.repo
            /\ tick' = t.tick
    /\ UNCHANGED <<cfg, call, notGit>>

\* the loop is back at its select and waits for the next tick
LoopWait ==
    /\ tick.ran
    /\ tick' = NoTick
    /\ UNCHANGED <<mon, cfg, repo, call, notGit>>

MonInit ==
    /\ mon = [lastRemoteCommit |-> <<>>, lastSyncStatus |-> FALSE,
              currentBranch |-> <<>>, started |-> FALSE]
    /\ cfg \in [AutoPull : BOOLEAN, AutoResolve : BOOLEAN]
    /\ tick = NoTick

\* no tick has run
HistInit ==
    hist = [ticked |-> FALSE, switched |-> FALSE, lastEval |-> "none", evalSince |-> "none"]

\* what a tick adds to the history: that a tick ran, whether it ran on
\* another branch than the one recorded before it, what the last completed
\* sync evaluation found, and what the last one since the latest branch
\* switch found
Remember(h, m, t) ==
    LET switched == t.branch # <<>> /\ m.currentBranch # <<>> /\ m.currentBranch # t.branch
        found == IF t.inSync THEN "in" ELSE "out"
    IN [ticked |-> TRUE,
        switched |-> switched,
        lastEval |-> IF t.evaluated THEN found ELSE h.lastEval,
        evalSince |-> IF t.evaluated THEN found
                      ELSE IF switched THEN "none" ELSE h.evalSince]

\* case <-ticker.C: checkForChanges(), with the history kept
TickObserved ==
    /\ mon.started
    /\ ~tick.ran
    /\ \E net1 \in BOOLEAN :
       \E net2 \in (IF net1 THEN BOOLEAN ELSE {FALSE}) :
       \E net3 \in (IF net2 THEN BOOLEAN ELSE {FALSE}) :
         LET t == checkForChanges(mon, cfg, repo, net1, net2, net3, "skipped")
         IN /\ mon' = t.mon
            /\ repo' = t.repo
            /\ tick' = t.tick
            /\ hist' = Remember(hist, mon, t.tick)
    /\ UNCHANGED <<cfg, call, parseVars, valVars, sesVars, life, stdin, sig, logf>>

NotifyNext ==
    \/ Start
    \/ TickObserved
    \/ LoopWait
    \/ mon.started /\ EnvPush
    \/ mon.started /\ EnvCommit
    \/ mon.started /\ EnvCheckout

MonNext ==
    \/ Start
    \/ Tick
    \/ LoopWait
    \/ mon.started /\ EnvPush
    \/ mon.started /\ EnvCommit
    \/ mon.started /\ EnvReset
    \/ mon.started /\ EnvCheckout
    \/ mon.started /\ EnvEdit

----------------------------------------------------------------------------
(* parseConflict *)

OursMarker == Rep("<", 7)
SepMarker == Rep("=", 7)
TheirsMarker == Rep(">", 7)

Section(t, c) == [Type |-> t, Content |-> c]

\* the three marker tests: fixed-length literal prefix matches
IsOursOpenAnywhere(line) == Contains(line, OursMarker)
IsOursOpen(line) == HasPrefix(line, OursMarker)

IsSeparator(line) == HasPrefix(line, SepMarker)

IsTheirsClose(line) == HasPrefix(line, TheirsMarker)

\* the flush condition at an ours-open line and at end of input
ShouldFlushUntrimmed(sec) == sec.Content # <<>>
ShouldFlush(sec) == TrimSpace(sec.Content) # <<>>

\* lines := strings.Split(content, "\n"); sections := []; currentSection :=
\* {normal, ""}; inConflict := false
ParseStart ==
    /\ ppc = "start"
    /\ lines' = Split(content)
    /\ idx' = 1
    /\ sections' = <<>>
    /\ currentSection' = Section("normal", <<>>)
    /\ inConflict' = FALSE
    /\ ppc' = "loop"
    /\ UNCHANGED content
    /\ UNCHANGED notParse

\* (variant: an ours-open line inside a conflict discards the unfinished
\* block instead of flushing it)
ParseOursOpenDropsOpenBlock ==
    /\ ppc = "loop" /\ idx <= Len(lines)
    /\ IsOursOpen(lines[idx])
    /\ sections' = IF ShouldFlush(currentSection) /\ ~inConflict
                   THEN Append(sections, currentSection) ELSE sections
    /\ currentSection' = Section("ours", <<>>)
    /\ inConflict' = TRUE
    /\ idx' = idx + 1
    /\ UNCHANGED <<content, lines, ppc>>
    /\ UNCHANGED notParse

\* (variant: the ours-open line starts the Ours section but forgets the flag)
ParseOursOpenLeavesFlag ==
    /\ ppc = "loop" /\ idx <= Len(lines)
    /\ IsOursOpen(lines[idx])
    /\ sections' = IF ShouldFlush(currentSection)
                   THEN Append(sections, currentSection) ELSE sections
    /\ currentSection' = Section("ours", <<>>)
    /\ idx' = idx + 1
    /\ UNCHANGED <<content, lines, inConflict, ppc>>
    /\ UNCHANGED notParse

\* if strings.HasPrefix(line, "<<<<<<<")
ParseOursOpen ==
    /\ ppc = "loop" /\ idx <= Len(lines)
    /\ IsOursOpen(lines[idx])
    /\ sections' = IF ShouldFlush(currentSection)
                   THEN Append(sections, currentSection) ELSE sections
    /\ currentSection' = Section("ours", <<>>)
    /\ inConflict' = TRUE
    /\ idx' = idx + 1
    /\ UNCHANGED <<content, lines, ppc>>
    /\ UNCHANGED notParse

\* (variant: a separator line is honoured outside a conflict block as well)
ParseSeparatorAnywhere ==
    /\ ppc = "loop" /\ idx <= Len(lines)
    /\ ~IsOursOpen(lines[idx])
    /\ IsSeparator(lines[idx])
    /\ sections' = Append(sections, currentSection)
    /\ currentSection' = Section("theirs", <<>>)
    /\ idx' = idx + 1
    /\ UNCHANGED <<content, lines, inConflict, ppc>>
    /\ UNCHANGED notParse

\* (variant: the separator flushes only a non-blank buffer)
ParseSeparatorTrimmed ==
    /\ ppc = "loop" /\ idx <= Len(lines)
    /\ ~IsOursOpen(lines[idx])
    /\ IsSeparator(lines[idx]) /\ inConflict
    /\ sections' = IF ShouldFlush(currentSection)
                   THEN Append(sections, currentSection) ELSE sections
    /\ currentSection' = Section("theirs", <<>>)
    /\ idx' = idx + 1
    /\ UNCHANGED <<content, lines, inConflict, ppc>>
    /\ UNCHANGED notParse

\* else if strings.HasPrefix(line, "=======") && inConflict
ParseSeparator ==
    /\ ppc = "loop" /\ idx <= Len(lines)
    /\ ~IsOursOpen(lines[idx])
    /\ IsSeparator(lines[idx]) /\ inConflict
    /\ sections' = Append(sections, currentSection)
    /\ currentSection' = Section("theirs", <<>>)
    /\ idx' = idx + 1
    /\ UNCHANGED <<content, lines, inConflict, ppc>>
    /\ UNCHANGED notParse

\* (variant: the close marker forgets to append the finished section)
ParseTheirsCloseNoFlush ==
    /\ ppc = "loop" /\ idx <= Len(lines)
    /\ ~IsOursOpen(lines[idx])
    /\ ~(IsSeparator(lines[idx]) /\ inConflict)
    /\ IsTheirsClose(lines[idx]) /\ inConflict
    /\ currentSection' = Section("normal", <<>>)
    /\ inConflict' = FALSE
    /\ idx' = idx + 1
    /\ UNCHANGED <<content, lines, sections, ppc>>
    /\ UNCHANGED notParse

\* (variant: a close marker is honoured outside a conflict block as well)
ParseTheirsCloseAnywhere ==
    /\ ppc = "loop" /\ idx <= Len(lines)
    /\ ~IsOursOpen(lines[idx])
    /\ ~(IsSeparator(lines[idx]) /\ inConflict)
    /\ IsTheirsClose(lines[idx])
    /\ sections' = Append(sections, currentSection)
    /\ currentSection' = Section("normal", <<>>)
    /\ inConflict' = FALSE
    /\ idx' = idx + 1
    /\ UNCHANGED <<content, lines, ppc>>
    /\ UNCHANGED notParse

\* else if strings.HasPrefix(line, ">>>>>>>") && inConflict
ParseTheirsClose ==
    /\ ppc = "loop" /\ idx <= Len(lines)
    /\ ~IsOursOpen(lines[idx])
    /\ ~(IsSeparator(lines[idx]) /\ inConflict)
    /\ IsTheirsClose(lines[idx]) /\ inConflict
    /\ sections' = Append(sections, currentSection)
    /\ currentSection' = Section("normal", <<>>)
    /\ inConflict' = FALSE
    /\ idx' = idx + 1
    /\ UNCHANGED <<content, lines, ppc>>
    /\ UNCHANGED notParse

\* (variant: the line is appended without its newline)
ParseAppendNoNewline ==
    /\ ppc = "loop" /\ idx <= Len(lines)
    /\ ~IsOursOpen(lines[idx])
    /\ ~(IsSeparator(lines[idx]) /\ inConflict)
    /\ ~(IsTheirsClose(lines[idx]) /\ inConflict)
    /\ currentSection' = [currentSection EXCEPT !.Content = @ \o lines[idx]]
    /\ idx' = idx + 1
    /\ UNCHANGED <<content, lines, sections, inConflict, ppc>>
    /\ UNCHANGED notParse

\* else: currentSection.Content += line + "\n"
ParseAppend ==
    /\ ppc = "loop" /\ idx <= Len(lines)
    /\ ~IsOursOpen(lines[idx])
    /\ ~(IsSeparator(lines[idx]) /\ inConflict)
    /\ ~(IsTheirsClose(lines[idx]) /\ inConflict)
    /\ currentSection' =
          [currentSection EXCEPT !.Content = @ \o lines[idx] \o <<NL>>]
    /\ idx' = idx + 1
    /\ UNCHANGED <<content, lines, sections, inConflict, ppc>>
    /\ UNCHANGED notParse

\* (variant: the buffer left at the end of the input is not returned)
ParseReturnDropsBuffer ==
    /\ ppc = "loop" /\ idx > Len(lines)
    /\ ppc' = "done"
    /\ UNCHANGED <<content, lines, idx, sections, currentSection, inConflict>>
    /\ UNCHANGED notParse

\* after the loop: final flush and return
ParseReturn ==
    /\ ppc = "loop" /\ idx > Len(lines)
    /\ sections' = IF ShouldFlush(currentSection)
                   THEN Append(sections, currentSection) ELSE sections
    /\ ppc' = "done"
    /\ UNCHANGED <<content, lines, idx, currentSection, inConflict>>
    /\ UNCHANGED notParse

----------------------------------------------------------------------------
(* Inputs of parseConflict *)

TextA == <<"a">>
Blank == <<" ">>
MidOurs == <<"a", " ">> \o OursMarker         \* marker not at line start
MidSep == <<" ">> \o SepMarker
MidTheirs == <<"a">> \o TheirsMarker
OpenHead == OursMarker \o <<" ", "H">>        \* "<<<<<<< H"
CloseBranch == TheirsMarker \o <<" ", "b">>   \* ">>>>>>> b"

LineAlphabet ==
    { <<>>, Blank, TextA, OpenHead, SepMarker, CloseBranch, MidOurs, MidTheirs }

\* free-form inputs: any lines, joined by newlines
FreeInputs == {Join(ls) : ls \in SeqUpTo(LineAlphabet, MaxLines)}

\* text spans used between the markers of block-structured inputs
NormalChunks == { <<>>, <<TextA>>, <<Blank, MidTheirs>> }
ConflictChunks == { <<>>, <<TextA, MidSep>> }
FinalChunks == NormalChunks \cup { <<TextA, <<>> >> }    \* the last ends in a newline

BlockLines(pre, ours, theirs) ==
    pre \o <<OursMarker>> \o ours \o <<SepMarker>> \o theirs \o <<CloseBranch>>

RECURSIVE BlockInputLines(_)
BlockInputLines(n) ==
    IF n = 0 THEN {<<>>}
    ELSE {front \o BlockLines(pre, ours, theirs) :
            front \in BlockInputLines(n - 1),
            pre \in NormalChunks, ours \in ConflictChunks, theirs \in ConflictChunks}

BlockInputs ==
    UNION {{Join(b \o post) : b \in BlockInputLines(n), post \in FinalChunks}
           : n \in 1..MaxBlocks}

ParseInit ==
    /\ content \in FreeInputs \cup BlockInputs
    /\ lines = <<>>
    /\ idx = 0
    /\ sections = <<>>
    /\ currentSection = Section("normal", <<>>)
    /\ inConflict = FALSE
    /\ ppc = "start"

ParseIdle ==
    /\ content = <<>>
    /\ lines = <<>>
    /\ idx = 0
    /\ sections = <<>>
    /\ currentSection = Section("normal", <<>>)
    /\ inConflict = FALSE
    /\ ppc = "idle"

ParseNext ==
    \/ ParseStart
    \/ ParseOursOpen
    \/ ParseSeparator
    \/ ParseTheirsClose
    \/ ParseAppend
    \/ ParseReturn

----------------------------------------------------------------------------
(* The resolution session: Resolver.ResolveConflicts and the per-file      *)
(* actions behind its menu                                                 *)

\* the files of the repository; the conflicts handed to a session are its
\* first n files (GetConflictedFiles and checkConflictsWithDiff list every
\* file once)
SessionFiles == <<"a.go", "b.go", "c.go", "d.go">>
FileNames == {SessionFiles[k] : k \in 1..Len(SessionFiles)}

\* the editors editInEditor looks for when EDITOR is empty, in this order
CommonEditors == <<"code", "vim", "nano", "vi">>

\* an external command: the program and its arguments
Run(prog, args) == [prog |-> prog, args |-> args]

\* strings.ToLower, on the letters the answers use
ToLowerChar(c) ==
    CASE c = "Y" -> "y" [] c = "E" -> "e" [] c = "S" -> "s"
      [] c = "N" -> "n" [] c = "O" -> "o" [] OTHER -> c
ToLower(s) == [k \in 1..Len(s) |-> ToLowerChar(s[k])]

\* what the user may type at the menu: reader.ReadString('\n')
ChoiceLines ==
    { <<"1", NL>>, <<" ", "2", " ", NL>>, <<"3", NL>>, <<"4", "\r", NL>>, <<"5", NL>>, <<"6", NL>>,
      <<"1", "2", NL>>, <<>> }

\* what the user may type at "Stage this file? [Y/n]"
AnswerLines ==
    { <<NL>>, <<" ", "y", NL>>, <<"Y", "e", "S", NL>>,
      <<"n", NL>>, <<"y", "e", NL>> }

\* choice = strings.TrimSpace(choice)
Choice(line) == TrimSpace(line)

MenuChoices == { <<"1">>, <<"2">>, <<"3">>, <<"4">>, <<"5">>, <<"6">> }

\* ---- what git and the editor do to a file ----

\* git checkout --ours|--theirs file: the working content becomes that side
\* (for a path that is not unmerged: the index version); a failed command
\* changes nothing
GitCheckoutSide(w, file, side, ok) ==
    IF ~ok THEN w
    ELSE IF w[file].index = "unmerged" THEN [w EXCEPT ![file].work = side]
    ELSE [w EXCEPT ![file].work = "plain"]

\* git add file: the index entry becomes the working content
GitAdd(w, file, ok) ==
    IF ~ok THEN w ELSE [w EXCEPT ![file].index = "staged"]

\* the editor run on the file: the user may or may not change it
EditorRun(w, file, edits) ==
    IF edits THEN [w EXCEPT ![file].work = "edited"] ELSE w

\* ---- the per-file actions: each returns the error ("nil" for none), ----
\* ---- the commands run and the files afterwards                      ----

Done(err, log, w) == [err |-> err, log |-> log, wt |-> w]

SideFlag(side) == IF side = "ours" THEN "--ours" ELSE "--theirs"
AcceptFailed(side) == IF side = "ours" THEN "failed to accept ours" ELSE "failed to accept theirs"

\* (variant: the chosen side is checked out and the file is not staged)
acceptSideNoStage(w, file, side, ok1, ok2) ==
    LET co == Run("git", <<"checkout", SideFlag(side), file>>)
        w1 == GitCheckoutSide(w, file, side, ok1)
    IN IF ~ok1 THEN Done(AcceptFailed(side), <<co>>, w1)
       ELSE Done("nil", <<co>>, w1)

\* (variant: the file is staged even though the checkout failed)
acceptSideStageAnyway(w, file, side, ok1, ok2) ==
    LET co == Run("git", <<"checkout", SideFlag(side), file>>)
        add == Run("git", <<"add", file>>)
    IN IF ~ok2
       THEN Done("failed to stage file", <<co, add>>, GitCheckoutSide(w, file, side, ok1))
       ELSE IF ~ok1
       THEN Done(AcceptFailed(side), <<co, add>>, GitAdd(w, file, TRUE))
       ELSE Done("nil", <<co, add>>, GitAdd(GitCheckoutSide(w, file, side, TRUE), file, TRUE))

\* acceptOurs / acceptTheirs: checkout of the side, then git add
acceptSide(w, file, side, ok1, ok2) ==
    LET co == Run("git", <<"checkout", SideFlag(side), file>>)
        add == Run("git", <<"add", file>>)
    IN IF ~ok1
       THEN Done(AcceptFailed(side), <<co>>, w)
       ELSE IF ~ok2
       THEN Done("failed to stage file", <<co, add>>, GitCheckoutSide(w, file, side, TRUE))
       ELSE Done("nil", <<co, add>>, GitAdd(GitCheckoutSide(w, file, side, TRUE), file, TRUE))

acceptOurs(w, file, ok1, ok2) == acceptSide(w, file, "ours", ok1, ok2)
acceptTheirs(w, file, ok1, ok2) == acceptSide(w, file, "theirs", ok1, ok2)

\* the first of the common editors exec.LookPath finds, "" if none
RECURSIVE FirstOnPath(_, _)
FirstOnPath(e, k) ==
    IF k > Len(CommonEditors) THEN ""
    ELSE IF CommonEditors[k] \in e.installed THEN CommonEditors[k]
    ELSE FirstOnPath(e, k + 1)

\* editor := os.Getenv("EDITOR"); if empty, the first common editor on PATH
resolveEditor(e) == IF e.EDITOR # "" THEN e.EDITOR ELSE FirstOnPath(e, 1)

\* (variant: the answer is compared as typed, without strings.ToLower)
WantsStageAsTyped(answer) ==
    TrimSpace(answer) \in { <<>>, <<"y">>, <<"y", "e", "s">> }

\* response == "" || response == "y" || response == "yes"
WantsStage(answer) ==
    TrimSpace(ToLower(answer)) \in { <<>>, <<"y">>, <<"y", "e", "s">> }

\* (variant: the file is staged before the editor's failure is returned)
editInEditorStagesOnFailure(e, w, file, exitok, edits, answer, addok) ==
    LET editor == resolveEditor(e)
        launch == Run(editor, <<file>>)
        add == Run("git", <<"add", file>>)
        started == editor \in e.installed
        w1 == IF started THEN EditorRun(w, file, edits) ELSE w
    IN IF editor = "" THEN Done("no editor found", <<>>, w)
       ELSE IF ~started \/ ~exitok
       THEN Done("failed to open editor", <<launch, add>>, GitAdd(w1, file, TRUE))
       ELSE IF WantsStage(answer)
       THEN IF addok THEN Done("nil", <<launch, add>>, GitAdd(w1, file, TRUE))
                     ELSE Done("failed to stage file", <<launch, add>>, w1)
       ELSE Done("nil", <<launch>>, w1)

\* editInEditor; exitok: the editor exits with status 0, edits: the user
\* changed the file, answer: the line typed at the staging question,
\* addok: git add succeeds
editInEditor(e, w, file, exitok, edits, answer, addok) ==
    LET editor == resolveEditor(e)
        launch == Run(editor, <<file>>)
        add == Run("git", <<"add", file>>)
        started == editor \in e.installed
        w1 == IF started THEN EditorRun(w, file, edits) ELSE w
    IN IF editor = "" THEN Done("no editor found", <<>>, w)
       ELSE IF ~started \/ ~exitok THEN Done("failed to open editor", <<launch>>, w1)
       ELSE IF WantsStage(answer)
       THEN IF addok THEN Done("nil", <<launch, add>>, GitAdd(w1, file, TRUE))
                     ELSE Done("failed to stage file", <<launch, add>>, w1)
       ELSE Done("nil", <<launch>>, w1)

\* cmd.Run() of the editor returned nil: the staging question is asked
EditorReturned(e, exitok) ==
    resolveEditor(e) # "" /\ resolveEditor(e) \in e.installed /\ exitok

\* showDiff: git diff on the file, its result ignored
showDiff(w, file) == Done("nil", <<Run("git", <<"diff", file>>)>>, w)

\* ---- the session ----

NoSession ==
    [pc |-> "idle", conflicts |-> <<>>, i |-> 0, err |-> "nil", log |-> <<>>,
     trail |-> <<>>, shown |-> 0, msg |-> "",
     typed |-> <<>>, asked |-> FALSE, answer |-> <<>>]

Current == ses.conflicts[ses.i]

\* how often the session has shown a file again
Reprompts == ses.shown - ses.i

\* (variant: the loop steps over the file after the one just handled)
AdvanceByTwo(s) ==
    IF s.i + 1 < Len(s.conflicts)
    THEN [s EXCEPT !.i = @ + 2, !.shown = @ + 1]
    ELSE [s EXCEPT !.pc = "done", !.msg = "All conflicts resolved!"]

\* the range loop of ResolveConflicts moves on, or is over
Advance(s) ==
    IF s.i < Len(s.conflicts)
    THEN [s EXCEPT !.i = @ + 1, !.shown = @ + 1]
    ELSE [s EXCEPT !.pc = "done", !.msg = "All conflicts resolved!"]

\* the line read at the menu, and at the staging question if it was asked
Typed(s, line, asked, answer) ==
    [s EXCEPT !.typed = line, !.asked = asked, !.answer = IF asked THEN answer ELSE <<>>]

\* (variant: after an error the loop goes on to the next file)
ReturnedGoesOn(d, action, msg, line, asked, answer) ==
    LET s == [Typed(ses, line, asked, answer) EXCEPT
                         !.log = @ \o d.log,
                         !.trail = Append(@, [i |-> ses.i, action |-> action, err |-> d.err]),
                         !.msg = IF d.err = "nil" THEN msg ELSE ses.msg]
    IN /\ wt' = d.wt
       /\ ses' = IF d.err = "nil" THEN Advance(s)
                 ELSE [Advance(s) EXCEPT !.err = d.err]
       /\ UNCHANGED <<env, notSes>>

\* a per-file action has returned d
Returned(d, action, msg, line, asked, answer) ==
    LET s == [Typed(ses, line, asked, answer) EXCEPT
                         !.log = @ \o d.log,
                         !.trail = Append(@, [i |-> ses.i, action |-> action, err |-> d.err]),
                         !.msg = IF d.err = "nil" THEN msg ELSE ses.msg]
    IN /\ wt' = d.wt
       /\ ses' = IF d.err = "nil" THEN Advance(s)
                 ELSE [s EXCEPT !.pc = "aborted", !.err = d.err]
       /\ UNCHANGED <<env, notSes>>

\* return r.resolveConflict(ui, conflict, current, total): the same file again
Represented(d, msg, line) ==
    /\ Reprompts < MaxReprompts
    /\ wt' = d.wt
    /\ ses' = [Typed(ses, line, FALSE, <<>>) EXCEPT
                  !.log = @ \o d.log, !.shown = @ + 1, !.msg = msg]
    /\ UNCHANGED <<env, notSes>>

\* ResolveConflicts is called: the first file is presented, if there is one
ResolveConflicts ==
    /\ ses.pc = "start"
    /\ ses' = IF ses.conflicts = <<>>
              THEN [ses EXCEPT !.pc = "done", !.msg = "All conflicts resolved!"]
              ELSE [ses EXCEPT !.pc = "prompt", !.i = 1, !.shown = 1]
    /\ UNCHANGED <<wt, env, notSes>>

\* case "1"
ChooseAcceptOurs ==
    /\ ses.pc = "prompt"
    /\ \E line \in ChoiceLines, ok1 \in BOOLEAN, ok2 \in BOOLEAN :
          /\ Choice(line) = <<"1">>
          /\ Returned(acceptOurs(wt, Current, ok1, ok2), "ours", "Accepted your changes",
                      line, FALSE, <<>>)

\* case "2"
ChooseAcceptTheirs ==
    /\ ses.pc = "prompt"
    /\ \E line \in ChoiceLines, ok1 \in BOOLEAN, ok2 \in BOOLEAN :
          /\ Choice(line) = <<"2">>
          /\ Returned(acceptTheirs(wt, Current, ok1, ok2), "theirs", "Accepted their changes",
                      line, FALSE, <<>>)

\* case "3"
ChooseEdit ==
    /\ ses.pc = "prompt"
    /\ \E line \in ChoiceLines, exitok \in BOOLEAN, edits \in BOOLEAN,
          answer \in AnswerLines, addok \in BOOLEAN :
          /\ Choice(line) = <<"3">>
          /\ Returned(editInEditor(env, wt, Current, exitok, edits, answer, addok), "edit",
                      IF WantsStage(answer) THEN "Edited and staged" ELSE "Edited (not staged)",
                      line, EditorReturned(env, exitok), answer)

\* (variant: a skipped file is staged as it is)
ChooseSkipStages ==
    /\ ses.pc = "prompt"
    /\ \E line \in ChoiceLines :
          /\ Choice(line) = <<"4">>
          /\ Returned(Done("nil", <<Run("git", <<"add", Current>>)>>, GitAdd(wt, Current, TRUE)),
                      "skip", "Skipped", line, FALSE, <<>>)

\* case "4"
ChooseSkip ==
    /\ ses.pc = "prompt"
    /\ \E line \in ChoiceLines :
          /\ Choice(line) = <<"4">>
          /\ Returned(Done("nil", <<>>, wt), "skip", "Skipped", line, FALSE, <<>>)

\* case "5"
ChooseShowDiff ==
    /\ ses.pc = "prompt"
    /\ \E line \in ChoiceLines :
          /\ Choice(line) = <<"5">>
          /\ Represented(showDiff(wt, Current), "Showing diff", line)

\* (variant: after the help text the choice counts as made)
ChooseShowHelpReturns ==
    /\ ses.pc = "prompt"
    /\ \E line \in ChoiceLines :
          /\ Choice(line) = <<"6">>
          /\ Returned(Done("nil", <<>>, wt), "help", "Conflict Resolution Help", line, FALSE, <<>>)

\* case "6"
ChooseShowHelp ==
    /\ ses.pc = "prompt"
    /\ \E line \in ChoiceLines :
          /\ Choice(line) = <<"6">>
          /\ Represented(Done("nil", <<>>, wt), "Conflict Resolution Help", line)

\* (variant: a line that is no menu choice skips the file)
ChooseInvalidSkips ==
    /\ ses.pc = "prompt"
    /\ \E line \in ChoiceLines :
          /\ Choice(line) \notin MenuChoices
          /\ Returned(Done("nil", <<>>, wt), "skip", "Skipped", line, FALSE, <<>>)

\* default
ChooseInvalid ==
    /\ ses.pc = "prompt"
    /\ \E line \in ChoiceLines :
          /\ Choice(line) \notin MenuChoices
          /\ Represented(Done("nil", <<>>, wt), "Invalid choice. Please try again.", line)

\* the environments a session may run in: the value of EDITOR, the programs
\* on PATH, and the editor named in the configuration file
Environment(editor, installed, configured) ==
    [EDITOR |-> editor, installed |-> installed, configured |-> configured]

Environments ==
    { Environment("vim", {"code", "vim", "nano", "vi", "emacs"}, ""),
      Environment("", {"nano", "vim", "vi"}, ""),
      Environment("", {}, ""),
      Environment("subl", {"nano", "vim"}, ""),
      Environment("vim", {"code", "vim", "nano", "vi", "emacs"}, "emacs"),
      Environment("", {"emacs"}, "emacs") }

\* a merge is in progress (harbinger resolve) or the conflicts come from a
\* merge preview (the monitor), and then no file is unmerged
SessionInit ==
    /\ \E n \in 0..MaxConflicts :
          ses = [NoSession EXCEPT !.pc = "start", !.conflicts = SubSeq(SessionFiles, 1, n)]
    /\ \E merging \in BOOLEAN :
          wt = [f \in FileNames |->
                  IF merging /\ \E k \in 1..Len(ses.conflicts) : ses.conflicts[k] = f
                  THEN [work |-> "markers", index |-> "unmerged"]
                  ELSE [work |-> "plain", index |-> "clean"]]
    /\ env \in Environments

SesIdle ==
    /\ ses = NoSession
    /\ wt = <<>>
    /\ env = [EDITOR |-> ""]

SessionNext ==
    \/ ResolveConflicts
    \/ ChooseAcceptOurs
    \/ ChooseAcceptTheirs
    \/ ChooseEdit
    \/ ChooseSkip
    \/ ChooseShowDiff
    \/ ChooseShowHelp
    \/ ChooseInvalid

----------------------------------------------------------------------------
\* ---- a session that reads a finite script ----

\* the lines of a script; the last line of an input may lack its newline
ScriptLines ==
    { <<"1", NL>>, <<"3", NL>>, <<"4", NL>>, <<"5", NL>>, <<"x", NL>>, <<"y", NL>>, <<"4">> }

StdinIdle == stdin = <<>>

\* reader.ReadString('\n') on a fresh bufio.NewReader(os.Stdin): the next
\* line; at end of input the empty string (the error is dropped)
ReadString(in) == IF in = <<>> THEN <<>> ELSE Head(in)

\* what is left for the next reader: the reader is dropped with whatever it
\* had buffered beyond the line (kept: it had buffered nothing more)
LeftUnread(in, kept) == IF in = <<>> \/ ~kept THEN <<>> ELSE Tail(in)

\* one run of resolveConflict on the current file, fed from the script;
\* ok1: the checkout, or the editor, succeeds; ok2: git add succeeds
PromptFromScript ==
    /\ ses.pc = "prompt"
    /\ \E kept1 \in BOOLEAN, kept2 \in BOOLEAN, ok1 \in BOOLEAN, ok2 \in BOOLEAN :
         LET line == ReadString(stdin)
             rest == LeftUnread(stdin, kept1)
             choice == Choice(line)
             asked == choice = <<"3">> /\ EditorReturned(env, ok1)
             answer == ReadString(rest)
             d == CASE choice = <<"1">> -> acceptOurs(wt, Current, ok1, ok2)
                    [] choice = <<"2">> -> acceptTheirs(wt, Current, ok1, ok2)
                    [] choice = <<"3">> -> editInEditor(env, wt, Current, ok1, TRUE, answer, ok2)
                    [] choice = <<"5">> -> showDiff(wt, Current)
                    [] OTHER -> Done("nil", <<>>, wt)
             s == [Typed(ses, line, asked, answer) EXCEPT !.log = @ \o d.log]
         IN /\ wt' = d.wt
            /\ stdin' = IF asked THEN LeftUnread(rest, kept2) ELSE rest
            /\ ses' = IF choice \in { <<"1">>, <<"2">>, <<"3">>, <<"4">> }
                      THEN IF d.err = "nil" THEN Advance(s)
                           ELSE [s EXCEPT !.pc = "aborted", !.err = d.err]
                      \* return r.resolveConflict(ui, conflict, current, total)
                      ELSE [s EXCEPT !.shown = IF Reprompts < MaxReprompts THEN @ + 1 ELSE @]
    /\ UNCHANGED <<env, parseVars, valVars, repo, call, monVars, life, hist, sig, logf>>

\* harbinger resolve with its input redirected from a script
ScriptInit ==
    /\ \E n \in 0..MaxConflicts :
          ses = [NoSession EXCEPT !.pc = "start", !.conflicts = SubSeq(SessionFiles, 1, n)]
    /\ wt = [f \in FileNames |->
               IF \E k \in 1..Len(ses.conflicts) : ses.conflicts[k] = f
               THEN [work |-> "markers", index |-> "unmerged"]
               ELSE [work |-> "plain", index |-> "clean"]]
    /\ env = Environment("", {"nano", "vim", "vi"}, "")
    /\ stdin \in SeqUpTo(ScriptLines, MaxScript)

ScriptNext ==
    \/ ResolveConflicts
    \/ PromptFromScript

(* The threads of one Monitor: the caller of Start and Stop, and the       *)
(* goroutines running monitorLoop.  A tick (checkForChanges) is in flight  *)
(* from the moment the ticker case of the select is taken until it         *)
(* returns: first its git commands, then, when handleConflicts launches    *)
(* one, the resolution session.  What a tick does to the repository and    *)
(* to the Monitor's fields is the Tick action of SpecMonitor.              *)

\* the position of a polling goroutine
InTick == {"command", "session"}

\* the values of Options.PollInterval: New takes any duration
PollIntervals == {-1, 0, 1}

\* New: ctx is not cancelled, the WaitGroup counts nothing, no goroutine
LifeInit ==
    \E d \in PollIntervals :
       life = [cancelled |-> FALSE, wg |-> 0, caller |-> "idle", loops |-> <<>>,
               calls |-> 0, ticks |-> 0, last |-> "none", ret |-> "none",
               interval |-> d, crashed |-> FALSE]

LifeIdle ==
    life = [cancelled |-> FALSE, wg |-> 0, caller |-> "none", loops |-> <<>>,
            calls |-> 0, ticks |-> 0, last |-> "none", ret |-> "none",
            interval |-> 1, crashed |-> FALSE]

Loops == 1..Len(life.loops)

\* Start is called: it reads the current branch, fetches, and stores the
\* remote commit in m.lastRemoteCommit, all on the caller's thread
StartCalled ==
    /\ life.caller = "idle"
    /\ life.calls < MaxCalls /\ Len(life.loops) < MaxStarts
    /\ life' = [life EXCEPT !.caller = "starting", !.calls = @ + 1,
                            !.last = "Start", !.ret = "none"]
    /\ UNCHANGED notLife

\* Start returns: an error of GetCurrentBranch or Fetch, or m.wg.Add(1);
\* go m.monitorLoop(); return nil
StartReturns(ok) ==
    /\ life.caller = "starting"
    /\ life' = IF ok
               THEN [life EXCEPT !.caller = "idle", !.ret = "nil", !.wg = @ + 1,
                                 !.loops = Append(@, "ticker")]
               ELSE [life EXCEPT !.caller = "idle", !.ret = "error"]
    /\ UNCHANGED notLife

\* Stop is called: m.cancel(), then the caller is at m.wg.Wait()
StopCancels ==
    /\ life.caller = "idle"
    /\ life.calls < MaxCalls
    /\ life' = [life EXCEPT !.cancelled = TRUE, !.caller = "waiting",
                            !.calls = @ + 1, !.last = "Stop", !.ret = "none"]
    /\ UNCHANGED notLife

\* (variant: Stop does not wait for the goroutines)
StopReturnsAtOnce ==
    /\ life.caller = "waiting"
    /\ life' = [life EXCEPT !.caller = "idle", !.ret = "nil"]
    /\ UNCHANGED notLife

\* m.wg.Wait() returns when the counter is zero; return nil
StopReturns ==
    /\ life.caller = "waiting"
    /\ life.wg = 0
    /\ life' = [life EXCEPT !.caller = "idle", !.ret = "nil"]
    /\ UNCHANGED notLife

\* ticker := time.NewTicker(m.options.PollInterval), which panics for a
\* duration that is not positive; a panic in a goroutine ends the process
monitorLoopNewTicker(g) ==
    /\ life.loops[g] = "ticker"
    /\ life' = IF life.interval > 0
               THEN [life EXCEPT !.loops[g] = "select"]
               ELSE [life EXCEPT !.loops[g] = "panicked", !.crashed = TRUE]
    /\ UNCHANGED notLife

\* (variant: the commands and the session of a tick are bound to ctx, so
\* that cancellation ends the tick and the loop at once)
monitorLoopDoneAnywhere(g) ==
    /\ life.loops[g] \in {"select"} \cup InTick
    /\ life.cancelled
    /\ life' = [life EXCEPT !.loops[g] = "exited", !.wg = @ - 1]
    /\ UNCHANGED notLife

\* select, case <-m.ctx.Done(): return (and the deferred m.wg.Done())
monitorLoopDone(g) ==
    /\ life.loops[g] = "select"
    /\ life.cancelled
    /\ life' = [life EXCEPT !.loops[g] = "exited", !.wg = @ - 1]
    /\ UNCHANGED notLife

\* select, case <-ticker.C: checkForChanges begins.  When both cases are
\* ready select takes either.
monitorLoopTicks(g) ==
    /\ life.loops[g] = "select"
    /\ life.ticks < MaxTicks
    /\ life' = [life EXCEPT !.loops[g] = "command", !.ticks = @ + 1]
    /\ UNCHANGED notLife

\* the git commands of the tick have run; handleConflicts launches a session
\* or checkForChanges returns to the select
TickCommandsEnd(g, session) ==
    /\ life.loops[g] = "command"
    /\ life' = [life EXCEPT !.loops[g] = IF session THEN "session" ELSE "select"]
    /\ UNCHANGED notLife

\* the resolution session ends; checkForChanges returns to the select
TickSessionEnd(g) ==
    /\ life.loops[g] = "session"
    /\ life' = [life EXCEPT !.loops[g] = "select"]
    /\ UNCHANGED notLife

\* while the process lives
LifeNext ==
    /\ ~life.crashed
    /\ \/ StartCalled
       \/ \E ok \in BOOLEAN : StartReturns(ok)
       \/ StopCancels
       \/ StopReturns
       \/ \E g \in Loops : monitorLoopNewTicker(g)
       \/ \E g \in Loops : monitorLoopDone(g)
       \/ \E g \in Loops : monitorLoopTicks(g)
       \/ \E g \in Loops, session \in BOOLEAN : TickCommandsEnd(g, session)
       \/ \E g \in Loops : TickSessionEnd(g)

----------------------------------------------------------------------------
(* sendStopSignal: the escalation from SIGTERM to SIGKILL *)

\* for i := 0; i < 10; i++
StopPolls == 10

\* the process the signals go to: it runs, or it has received SIGTERM and
\* is shutting down, or it does not exist
Live == {"running", "stopping"}

SigIdle ==
    sig = [pc |-> "none", i |-> 0, sent |-> <<>>, ret |-> "none",
           first |-> "none", seenGone |-> FALSE, proc |-> "exited",
           pidFile |-> FALSE]

SigInit ==
    \E p \in {"running", "exited"} :
       sig = [pc |-> "check", i |-> 0, sent |-> <<>>, ret |-> "none",
              first |-> "none", seenGone |-> FALSE, proc |-> p,
              pidFile |-> TRUE]

\* process.Signal(syscall.Signal(0)): an error when the process does not
\* exist; then return err
checkProcess ==
    /\ sig.pc = "check"
    /\ sig' = IF sig.proc \in Live
              THEN [sig EXCEPT !.pc = "term", !.first = "exists"]
              ELSE [sig EXCEPT !.pc = "done", !.first = "absent", !.ret = "err"]
    /\ UNCHANGED <<parseVars, valVars, repo, call, monVars, sesVars, life, hist, stdin, logf>>

\* process.Signal(syscall.SIGTERM); return err when it fails. A process
\* that handles the signal begins to shut down, another one runs on
sendTerm ==
    /\ sig.pc = "term"
    /\ \E after \in Live :
       sig' = IF sig.proc \in Live
              THEN [sig EXCEPT !.pc = "sleep", !.sent = Append(@, "SIGTERM"),
                               !.proc = IF sig.proc = "stopping" THEN @ ELSE after]
              ELSE [sig EXCEPT !.pc = "done", !.sent = Append(@, "SIGTERM"),
                               !.ret = "err"]
    /\ UNCHANGED <<parseVars, valVars, repo, call, monVars, sesVars, life, hist, stdin, logf>>

\* the loop test and time.Sleep(100 * time.Millisecond); after the last
\* round the loop is left for the SIGKILL
sleepBeforePoll ==
    /\ sig.pc = "sleep"
    /\ sig' = IF sig.i < StopPolls
              THEN [sig EXCEPT !.pc = "probe"]
              ELSE [sig EXCEPT !.pc = "kill"]
    /\ UNCHANGED <<parseVars, valVars, repo, call, monVars, sesVars, life, hist, stdin, logf>>

\* (variant: the loop is left for the SIGKILL as soon as one poll has found
\* the process)
pollProcessOnce ==
    /\ sig.pc = "probe"
    /\ sig' = IF sig.proc \in Live
              THEN [sig EXCEPT !.pc = "kill", !.i = @ + 1]
              ELSE [sig EXCEPT !.pc = "done", !.i = @ + 1, !.seenGone = TRUE,
                               !.ret = "nil"]
    /\ UNCHANGED <<parseVars, valVars, repo, call, monVars, sesVars, life, hist, stdin, logf>>

\* process.Signal(syscall.Signal(0)) in the loop: on an error return nil,
\* else i++
pollProcess ==
    /\ sig.pc = "probe"
    /\ sig' = IF sig.proc \in Live
              THEN [sig EXCEPT !.pc = "sleep", !.i = @ + 1]
              ELSE [sig EXCEPT !.pc = "done", !.i = @ + 1, !.seenGone = TRUE,
                               !.ret = "nil"]
    /\ UNCHANGED <<parseVars, valVars, repo, call, monVars, sesVars, life, hist, stdin, logf>>

\* return process.Signal(syscall.SIGKILL)
sendKill ==
    /\ sig.pc = "kill"
    /\ sig' = IF sig.proc \in Live
              THEN [sig EXCEPT !.pc = "done", !.sent = Append(@, "SIGKILL"),
                               !.ret = "nil", !.proc = "exited"]
              ELSE [sig EXCEPT !.pc = "done", !.sent = Append(@, "SIGKILL"),
                               !.ret = "err"]
    /\ UNCHANGED <<parseVars, valVars, repo, call, monVars, sesVars, life, hist, stdin, logf>>

\* the process ends, of itself or because it handles SIGTERM
ProcessExits ==
    /\ sig.pc \notin {"none", "done", "returned"}
    /\ sig.proc \in Live
    /\ sig' = [sig EXCEPT !.proc = "exited"]
    /\ UNCHANGED <<parseVars, valVars, repo, call, monVars, sesVars, life, hist, stdin, logf>>

----------------------------------------------------------------------------
(* cleanupLogFile: the log file of a stopped daemon *)

\* if info.Size() < 1024
SizeLimit == 1024

\* for scanner.Scan() && lineCount < 10
ScanLimit == 10

\* the lines a log file is made of: the three messages written when the
\* daemon starts, a line of monitoring output, a line of spaces
\* (a line is the sequence of its words and spaces)
StartedLine == <<"Harbinger", " ", "monitor", " ", "started", " ", "for", " ", "/repo">>
PollingLine == <<"Polling", " ", "interval", ":", " ", "30s">>
PidLine == <<"Process", " ", "ID", ":", " ", "1">>
OutputLine == <<"Repository", " ", "status", " ", "changed">>
SpaceLine == <<" ">>

MonitorStarted == <<"monitor", " ", "started">>
PollingInterval == <<"Polling", " ", "interval">>
ProcessID == <<"Process", " ", "ID">>

LogLines == {StartedLine, PollingLine, PidLine, OutputLine, SpaceLine}

\* the test of the scan loop: the line is actual monitoring output
IsRealContent(line) ==
    /\ ~Contains(line, MonitorStarted)
    /\ ~Contains(line, PollingInterval)
    /\ ~Contains(line, ProcessID)
    /\ TrimSpace(line) # <<>>

\* the lines the scan loop reads: it stops at the first line of real
\* content, after ScanLimit lines, and at the end of the file
ScannedLines(ls) ==
    LET most == IF Len(ls) < ScanLimit THEN Len(ls) ELSE ScanLimit
        real == {i \in 1..most : IsRealContent(ls[i])}
    IN IF real = {} THEN most
       ELSE CHOOSE i \in real : \A j \in real : i <= j

\* cleanupLogFile: what is left of the file
cleanupLogFile(f) ==
    IF ~f.exists THEN f
    ELSE IF f.size < SizeLimit THEN [exists |-> FALSE]
    ELSE LET lineCount == ScannedLines(f.lines)
             hasRealContent == lineCount > 0 /\ IsRealContent(f.lines[lineCount])
         IN IF ~hasRealContent /\ lineCount < ScanLimit
            THEN [exists |-> FALSE]
            ELSE f

\* the bytes of a line with its line end, at the least
LineBytes(line) ==
    CASE line = StartedLine -> 48
      [] line = PollingLine -> 22
      [] line = PidLine -> 14
      [] line = OutputLine -> 26
      [] OTHER -> 2

RECURSIVE LeastBytes(_)
LeastBytes(ls) == IF ls = <<>> THEN 0 ELSE LineBytes(Head(ls)) + LeastBytes(Tail(ls))

\* the sizes a file of these lines is given: the lines carry time stamps,
\* paths and messages of any length
FileSizes(ls) ==
    IF ls = <<>> THEN {0}
    ELSE {LeastBytes(ls)} \cup {n \in {SizeLimit - 1, SizeLimit} : n >= LeastBytes(ls)}

\* the log files: a few lines, and then none or ScanLimit more lines of
\* one kind
LogContents ==
    {h \o [i \in 1..n |-> t] :
        h \in SeqUpTo(LogLines, MaxLogLines), t \in LogLines, n \in {0, ScanLimit}}

LogIdle == logf = [exists |-> FALSE]

LogInit ==
    \/ logf = [exists |-> FALSE]
    \/ \E ls \in LogContents : \E n \in FileSizes(ls) :
          logf = [exists |-> TRUE, lines |-> ls, size |-> n]

\* stopMonitor after sendStopSignal: the PID file is removed, and the log
\* file is cleaned up when the signal was sent without an error
stopMonitor ==
    /\ sig.pc = "done"
    /\ sig' = [sig EXCEPT !.pc = "returned", !.pidFile = FALSE]
    /\ logf' = IF sig.ret = "nil" THEN cleanupLogFile(logf) ELSE logf
    /\ UNCHANGED <<parseVars, valVars, repo, call, monVars, sesVars, life, hist, stdin>>

StopNext ==
    \/ checkProcess
    \/ sendTerm
    \/ sleepBeforePoll
    \/ pollProcess
    \/ sendKill
    \/ ProcessExits
    \/ stopMonitor

GitIdle ==
    /\ repo = [head |-> Main]
    /\ call = [op |-> "none"]
    /\ MonIdle

InitParse == ParseInit /\ ValIdle /\ GitIdle /\ SesIdle /\ LifeIdle /\ HistInit /\ StdinIdle /\ SigIdle /\ LogIdle

InitStop ==
    /\ SigInit /\ LogInit /\ ParseIdle /\ ValIdle /\ GitIdle /\ SesIdle /\ LifeIdle
    /\ HistInit /\ StdinIdle

SpecStop == InitStop /\ [][StopNext]_vars

SpecParse == InitParse /\ [][ParseNext]_vars

InitValidate == ValInit /\ ParseIdle /\ GitIdle /\ SesIdle /\ LifeIdle /\ HistInit /\ StdinIdle /\ SigIdle /\ LogIdle

SpecValidate == InitValidate /\ [][ValNext]_vars

\* the monitor runs against a git that has merge-tree --write-tree (the
\* fallback of CheckForConflicts is exercised by the direct calls of SpecRepo)
InitMonitor ==
    /\ RepoInit /\ repo.mergeTree
    /\ CallInit /\ MonInit /\ ParseIdle /\ ValIdle /\ SesIdle /\ LifeIdle /\ HistInit
    /\ StdinIdle /\ SigIdle /\ LogIdle

SpecMonitor == InitMonitor /\ [][MonNext]_vars

InitRepo == RepoInit /\ CallInit /\ MonIdle /\ ParseIdle /\ ValIdle /\ SesIdle /\ LifeIdle /\ HistInit /\ StdinIdle /\ SigIdle /\ LogIdle

SpecRepo == InitRepo /\ [][RepoNext]_vars

InitSession == SessionInit /\ ParseIdle /\ ValIdle /\ GitIdle /\ LifeIdle /\ HistInit /\ StdinIdle /\ SigIdle /\ LogIdle

SpecSession == InitSession /\ [][SessionNext]_vars

InitLifecycle == LifeInit /\ ParseIdle /\ ValIdle /\ GitIdle /\ SesIdle /\ HistInit /\ StdinIdle /\ SigIdle /\ LogIdle

\* a Monitor that reports conflicts without resolving them, with the history
\* of its ticks
InitNotify ==
    /\ RepoInit /\ repo.mergeTree
    /\ CallInit /\ MonInit /\ ~cfg.AutoResolve
    /\ ParseIdle /\ ValIdle /\ SesIdle /\ LifeIdle /\ HistInit /\ StdinIdle /\ SigIdle /\ LogIdle

SpecNotify == InitNotify /\ [][NotifyNext]_vars

InitScript == ScriptInit /\ ParseIdle /\ ValIdle /\ GitIdle /\ LifeIdle /\ HistInit /\ SigIdle /\ LogIdle

\* the session takes its steps: it is never suspended for ever while it has
\* a step to take
SpecScript == InitScript /\ [][ScriptNext]_vars /\ WF_vars(ScriptNext)

SpecLifecycle == InitLifecycle /\ [][LifeNext]_vars

----------------------------------------------------------------------------
(* Properties of parseConflict *)

InputLines == Split(content)

BeginsWithMarker(l) ==
    HasPrefix(l, OursMarker) \/ HasPrefix(l, SepMarker) \/ HasPrefix(l, TheirsMarker)

ContainsMarker(l) ==
    Contains(l, OursMarker) \/ Contains(l, SepMarker) \/ Contains(l, TheirsMarker)

\* the text of lines a..b of ls, each followed by a newline
SpanContent(ls, a, b) == Flatten([i \in 1..(b - a + 1) |-> ls[a + i - 1] \o <<NL>>])

NonBlank(text) == TrimSpace(text) # <<>>

Kinds(secs) == [i \in 1..Len(secs) |-> secs[i].Type]

\* positions of the lines that begin with a marker, in input order
RECURSIVE MarkerPosFrom(_, _)
MarkerPosFrom(ls, i) ==
    IF i > Len(ls) THEN <<>>
    ELSE (IF BeginsWithMarker(ls[i]) THEN <<i>> ELSE <<>>) \o MarkerPosFrom(ls, i + 1)

MarkerPos(ls) == MarkerPosFrom(ls, 1)

\* ls is n well-formed blocks: its marker lines are open, separator, close,
\* n times over, and no other line begins with a marker
BlocksShape(ls, n) ==
    LET mp == MarkerPos(ls) IN
    /\ Len(mp) = 3 * n
    /\ \A b \in 1..n :
          /\ HasPrefix(ls[mp[3 * b - 2]], OursMarker)
          /\ HasPrefix(ls[mp[3 * b - 1]], SepMarker)
          /\ HasPrefix(ls[mp[3 * b]], TheirsMarker)

\* the normal text before block b (b = n + 1: after the last block)
NormalSpan(ls, b) ==
    LET mp == MarkerPos(ls)
        from == IF b = 1 THEN 1 ELSE mp[3 * (b - 1)] + 1
        to == IF 3 * b - 2 <= Len(mp) THEN mp[3 * b - 2] - 1 ELSE Len(ls)
    IN SpanContent(ls, from, to)

OursSpan(ls, b) == LET mp == MarkerPos(ls) IN SpanContent(ls, mp[3 * b - 2] + 1, mp[3 * b - 1] - 1)

TheirsSpan(ls, b) == LET mp == MarkerPos(ls) IN SpanContent(ls, mp[3 * b - 1] + 1, mp[3 * b] - 1)

OptionalNormal(text) == IF NonBlank(text) THEN <<Section("normal", text)>> ELSE <<>>

ExpectedSingle(ls) ==
    OptionalNormal(NormalSpan(ls, 1))
      \o <<Section("ours", OursSpan(ls, 1)), Section("theirs", TheirsSpan(ls, 1))>>
      \o OptionalNormal(NormalSpan(ls, 2))

\* C6: for a well-formed single-conflict input (optional normal text, ours-open
\* line, ours text, separator, theirs text, theirs-close line, optional normal
\* text) parseConflict returns [Normal?, Ours, Theirs, Normal?]: a Normal
\* section is present exactly when its text is non-empty after trimming, and
\* every section holds exactly the lines of its span.
C6_SingleConflictOrder ==
    (ppc = "done" /\ BlocksShape(InputLines, 1)) => sections = ExpectedSingle(InputLines)

C6_Witness ==
    /\ ppc = "done"
    /\ BlocksShape(InputLines, 1)
    /\ Kinds(sections) = <<"normal", "ours", "theirs", "normal">>

RECURSIVE PatternKinds(_)
PatternKinds(n) ==
    IF n = 0 THEN <<"normal">> ELSE <<"normal", "ours", "theirs">> \o PatternKinds(n - 1)

\* ls is n well-formed blocks, each preceded by normal text that is non-empty
\* (after trimming, as everywhere in the parser), with such text at the end too
SeparatedBlocks(ls, n) ==
    /\ BlocksShape(ls, n)
    /\ \A b \in 1..(n + 1) : NonBlank(NormalSpan(ls, b))

\* C7: N >= 1 well-formed conflict blocks, each preceded by non-empty normal
\* text and followed at the end by non-empty normal text, parse to exactly
\* 3N + 1 sections: Normal, Ours, Theirs N times over, then a trailing Normal.
C7_BlocksYield3NPlus1 ==
    \A n \in 1..MaxBlocks :
        (ppc = "done" /\ SeparatedBlocks(InputLines, n)) =>
            /\ Len(sections) = 3 * n + 1
            /\ Kinds(sections) = PatternKinds(n)

C7_Witness ==
    /\ ppc = "done"
    /\ SeparatedBlocks(InputLines, 2)
    /\ Len(sections) = 7

\* C8: parsing the empty string yields no section.
C8_EmptyInput == (ppc = "done" /\ content = <<>>) => sections = <<>>

C8_Witness == ppc = "done" /\ content = <<>> /\ Len(sections) = 0

\* the input is an ours-open line, a separator line and a theirs-close line
\* and nothing else, with or without a final newline
MarkersOnly(ls) ==
    /\ Len(ls) \in {3, 4}
    /\ HasPrefix(ls[1], OursMarker)
    /\ HasPrefix(ls[2], SepMarker)
    /\ HasPrefix(ls[3], TheirsMarker)
    /\ Len(ls) = 4 => ls[4] = <<>>

\* C9: an input of only the three marker lines, with no text between them,
\* yields exactly two sections, Ours then Theirs, both blank after trimming.
C9_MarkersOnly ==
    (ppc = "done" /\ MarkersOnly(InputLines)) =>
        /\ Kinds(sections) = <<"ours", "theirs">>
        /\ \A i \in 1..Len(sections) : TrimSpace(sections[i].Content) = <<>>

C9_Witness ==
    /\ ppc = "done"
    /\ MarkersOnly(InputLines)
    /\ Len(InputLines) = 4
    /\ Len(sections) = 2

\* a marker sequence occurs in the line, but not as its prefix
MidLineMarker(l) == ContainsMarker(l) /\ ~BeginsWithMarker(l)

\* C10: a line that carries a marker sequence only in mid-line never changes
\* the parser state (section kind, inConflict, flushed sections); the line is
\* appended verbatim, followed by a newline, to the current section.
C10_MidLineMarkerIsText ==
    [][(ppc = "loop" /\ idx <= Len(lines) /\ MidLineMarker(lines[idx])) =>
          /\ inConflict' = inConflict
          /\ sections' = sections
          /\ currentSection'.Type = currentSection.Type
          /\ currentSection'.Content = currentSection.Content \o lines[idx] \o <<NL>>]_vars

C10_Witness ==
    /\ ppc = "loop" /\ idx > 1
    /\ MidLineMarker(lines[idx - 1])
    /\ inConflict
    /\ currentSection.Type = "ours"
    /\ HasSuffix(currentSection.Content, lines[idx - 1] \o <<NL>>)

----------------------------------------------------------------------------
(* Properties of validateBranchName *)

\* the characters the rule lists: ; & | $ ( ) { } [ ] < > ' " \
ListedChars ==
    { ";", "&", "|", "$", "(", ")", "{", "}", "[", "]", "<", ">", "'", "\"", "\\" }

MustReject(name) ==
    \/ Len(name) = 0
    \/ \E i \in 1..Len(name) : name[i] \in ListedChars
    \/ name[1] = "/"
    \/ name[Len(name)] = "/"
    \/ \E i \in 1..(Len(name) - 1) : name[i] = "." /\ name[i + 1] = "."

\* C3: validateBranchName rejects a name if and only if it is empty, contains
\* one of ; & | $ ( ) { } [ ] < > ' " \, starts or ends with '/', or contains
\* '..'; every other name is accepted.
C3_ValidateIff ==
    vresult \notin {"pending", "idle"} => (vresult # "nil" <=> MustReject(vname))

C3_Witness ==
    /\ vresult = "nil"
    /\ Len(vname) = 3
    /\ vname[2] = "/"
    /\ vname[3] = "."

----------------------------------------------------------------------------
(* Properties of the Repository methods *)

LogNames(log) == {log[i].name : i \in 1..Len(log)}

BranchMethods ==
    { "GetRemoteCommit", "GetLocalCommit", "CheckForConflicts", "IsInSync",
      "IsBehindRemote", "IsAheadOfRemote", "GetRemoteName" }

\* the step is a call of one of these methods
BranchCall ==
    \/ call'.op = "GetRemoteCommit" /\ CallGetRemoteCommit
    \/ call'.op = "GetLocalCommit" /\ CallGetLocalCommit
    \/ call'.op = "CheckForConflicts" /\ CallCheckForConflicts
    \/ call'.op = "IsInSync" /\ CallIsInSync
    \/ call'.op = "IsBehindRemote" /\ CallIsBehindRemote
    \/ call'.op = "IsAheadOfRemote" /\ CallIsAheadOfRemote
    \/ call'.op = "GetRemoteName" /\ CallGetRemoteName

\* C2: every Repository method that takes a branch name returns an error for
\* a name that fails validation, before any external command (fetch included)
\* has run and without any effect on the repository.
C2_InvalidNameRejectedFirst ==
    [][(BranchCall /\ MustReject(call'.arg)) =>
          /\ call'.err # NoErr
          /\ call'.log = <<>>
          /\ repo' = repo]_vars

C2_Witness ==
    /\ call.op = "IsInSync"
    /\ call.arg = <<"f", ";", "r", "m", " ", "-", "r", "f">>
    /\ call.err # NoErr
    /\ call.log = <<>>

\* the call fetched, resolved the local branch and then looked up the remote
\* branch, which does not exist
RemoteBranchMissing ==
    /\ call.op = "IsInSync"
    /\ call.arg \in Branches
    /\ call.log # <<>>
    /\ call.log[Len(call.log)].name = "rev-parse"
    /\ call.log[Len(call.log)].args = <<Origin \o call.arg>>
    /\ Resolve(repo, Origin \o call.arg) = NoCommit

\* C5 (as claimed): when the remote counterpart of the branch does not exist,
\* IsInSync reports "in sync" (true, no error) rather than an error.
C5_NoUpstreamInSync ==
    RemoteBranchMissing => (call.err = NoErr /\ call.val = <<TRUE>>)

----------------------------------------------------------------------------
(* Properties of the polling tick *)

\* C4: on every tick whose sync evaluation finds the local and the remote
\* commit id equal, no conflicts are reported and CheckForConflicts is not
\* invoked during that tick, whatever ticks, remote updates, branch switches
\* and auto-pulls came before; and a tick that leaves the two ids equal (an
\* auto-pull in the same tick included) reports no conflicts either.
C4_InSyncSkipsConflictCheck ==
    /\ (tick.ran /\ tick.evaluated /\ tick.local = tick.remote) =>
          /\ ~tick.checked
          /\ "merge-tree" \notin LogNames(tick.log)
          /\ "merge-base" \notin LogNames(tick.log)
          /\ "Conflicts" \notin {tick.notes[i] : i \in 1..Len(tick.notes)}
          /\ tick.conflicts = <<>>
          /\ ~tick.session
    /\ (/\ tick.ran /\ tick.evaluated
        /\ Resolve(repo, tick.branch) = Resolve(repo, Origin \o tick.branch)) =>
          /\ tick.conflicts = <<>>
          /\ ~tick.session

\* in sync on a remote commit other than the one Start recorded
C4_Witness ==
    /\ tick.ran /\ tick.evaluated
    /\ tick.local = tick.remote
    /\ mon.lastRemoteCommit # <<>>
    /\ tick.remote # mon.lastRemoteCommit
    /\ mon.currentBranch = Main

----------------------------------------------------------------------------
(* The order of the sections of one conflict block *)

\* C11 (as claimed): in the sections parseConflict returns for any input,
\* every Theirs section is immediately preceded by an Ours section.
C11_TheirsRightAfterOurs ==
    ppc = "done" =>
        \A i \in 1..Len(sections) :
            sections[i].Type = "theirs" => (i > 1 /\ sections[i - 1].Type = "ours")

\* C11 (amended): every Theirs section is immediately preceded by an Ours
\* section or, after a repeated separator, by another Theirs section of the
\* same block; a Normal section never comes directly before a Theirs
\* section, and the first section is never a Theirs section.  This holds of
\* the result and of every prefix of it built on the way.
C11_TheirsAfterOursOrTheirs ==
    ppc \in {"loop", "done"} =>
        /\ \A i \in 1..Len(sections) :
              sections[i].Type = "theirs" =>
                  (i > 1 /\ sections[i - 1].Type \in {"ours", "theirs"})
        /\ currentSection.Type = "theirs" =>
              (sections # <<>> /\ sections[Len(sections)].Type \in {"ours", "theirs"})

\* a repeated separator: Ours, Theirs, Theirs
C11_Witness ==
    /\ ppc = "done"
    /\ Kinds(sections) = <<"ours", "theirs", "theirs">>
    /\ Len(InputLines) = 4
    /\ IsSeparator(InputLines[2]) /\ IsSeparator(InputLines[3])

\* ---- the resolution session (SpecSession) ----

TerminalActions == {"ours", "theirs", "edit", "skip"}

\* file k of the list reached a terminal per-file action, which returned nil
ReachedTerminal(k) ==
    /\ k <= Len(ses.trail)
    /\ ses.trail[k].i = k
    /\ ses.trail[k].action \in TerminalActions
    /\ ses.trail[k].err = "nil"

\* the new commands of a step, and the commands that apply or stage
NewCommands == SubSeq(ses'.log, Len(ses.log) + 1, Len(ses'.log))
IsApplyOrStage(c) == c.prog = "git" /\ c.args[1] \in {"checkout", "add"}
IsStage(c) == c.prog = "git" /\ c.args[1] = "add"

\* a line was read at the menu of the file presented
ChoiceStep == ses.pc = "prompt" /\ ses' # ses
Chose(n) == ChoiceStep /\ Choice(ses'.typed) = <<n>>
Proceeds ==
    IF ses.i < Len(ses.conflicts)
    THEN ses'.pc = "prompt" /\ ses'.i = ses.i + 1
    ELSE ses'.pc = "done" /\ ses'.i = ses.i
SameFileAgain ==
    /\ ses'.pc = "prompt" /\ ses'.i = ses.i /\ ses'.conflicts = ses.conflicts
    /\ ses'.shown = ses.shown + 1
    /\ ses'.trail = ses.trail /\ ses'.err = ses.err
    /\ wt' = wt

\* C12: ResolveConflicts returns nil only when every conflict of the list, one
\* at a time and in list order, reached a terminal per-file action (accept
\* ours, accept theirs, edit, skip); while file i is presented, exactly the
\* files 1..i-1 have reached theirs.
C12_EveryFileInOrder ==
    /\ ses.pc = "done" =>
          /\ ses.err = "nil"
          /\ Len(ses.trail) = Len(ses.conflicts)
          /\ \A k \in 1..Len(ses.conflicts) : ReachedTerminal(k)
    /\ ses.pc = "prompt" =>
          /\ ses.i \in 1..Len(ses.conflicts)
          /\ Len(ses.trail) = ses.i - 1
          /\ \A k \in 1..(ses.i - 1) : ReachedTerminal(k)

C12_Witness ==
    /\ ses.pc = "done" /\ Len(ses.conflicts) = 2
    /\ ses.trail[1].action = "skip" /\ ses.trail[2].action = "edit"

\* a per-file action returned in this step, with this error
ActionReturned == Len(ses'.trail) = Len(ses.trail) + 1
ReturnedErr == ses'.trail[Len(ses'.trail)].err

\* C13: when a per-file action returns an error, ResolveConflicts returns that
\* error at once: the session is aborted with it, no later conflict is
\* presented, nothing happens after the abort (no apply or stage command), and
\* success is never reported.
C13_FirstErrorAborts ==
    [][/\ ses.pc # "aborted"
       /\ (ActionReturned /\ ReturnedErr # "nil") =>
             /\ ses'.pc = "aborted"
             /\ ses'.err = ReturnedErr
             /\ ses'.i = ses.i /\ ses'.shown = ses.shown
             /\ ses'.msg # "All conflicts resolved!"
             /\ Len(ses'.trail) = ses.i]_vars

C13_Witness ==
    /\ ses.pc = "aborted" /\ ses.i = 1 /\ Len(ses.conflicts) = 2
    /\ ses.err = "failed to stage file"
    /\ ses.msg # "All conflicts resolved!"

\* C14: in a session of one conflict where accept theirs (resp. accept ours)
\* is chosen and both commands succeed, exactly one checkout of that side for
\* that file is issued, then exactly one git add for that file, and the
\* session ends successfully with the file staged.
C14_AcceptIsCheckoutThenAdd ==
    (/\ ses.pc = "done" /\ Len(ses.conflicts) = 1
     /\ ses.trail[1].action \in {"ours", "theirs"}) =>
        /\ SelectSeq(ses.log, IsApplyOrStage) =
              << Run("git", <<"checkout", SideFlag(ses.trail[1].action), ses.conflicts[1]>>),
                 Run("git", <<"add", ses.conflicts[1]>>) >>
        /\ wt[ses.conflicts[1]].index = "staged"
        /\ ses.err = "nil" /\ ses.msg = "All conflicts resolved!"

C14_Witness ==
    /\ ses.pc = "done" /\ ses.conflicts = <<"a.go">>
    /\ ses.trail[1].action = "theirs"
    /\ wt["a.go"] = [work |-> "theirs", index |-> "staged"]
    /\ ses.log = << Run("git", <<"checkout", "--theirs", "a.go">>), Run("git", <<"add", "a.go">>) >>

\* accept ours or accept theirs was chosen for the file presented and returned
\* an error
AcceptedSide == ses'.trail[Len(ses'.trail)].action
AcceptFailedStep ==
    /\ ActionReturned
    /\ AcceptedSide \in {"ours", "theirs"}
    /\ ReturnedErr # "nil"
CheckoutOf(side, file) == Run("git", <<"checkout", SideFlag(side), file>>)
StageOf(file) == Run("git", <<"add", file>>)

\* C15 as stated: after a failed checkout or a failed stage step of accept
\* ours / accept theirs the error is returned, the working content and the
\* index entry of the file are as before the action, no stage step follows a
\* failed checkout, and the session aborts.
C15_FailedAcceptChangesNothing ==
    [][AcceptFailedStep =>
          /\ ses'.pc = "aborted" /\ ses'.err = ReturnedErr
          /\ wt' = wt
          /\ ReturnedErr = AcceptFailed(AcceptedSide) =>
                NewCommands = <<CheckoutOf(AcceptedSide, Current)>>]_vars

\* C15 (amended): after a failed checkout or a failed stage step the error is
\* returned, the index entry of the file is as before (the file remains
\* unresolved), no other file is touched and the session aborts; after a
\* failed checkout the working content is as before and no stage step is
\* attempted; after a successful checkout and a failed stage step the working
\* content is the checked-out side.
C15_FailedAcceptLeavesUnresolved ==
    [][AcceptFailedStep =>
          /\ ses'.pc = "aborted" /\ ses'.err = ReturnedErr
          /\ wt'[Current].index = wt[Current].index
          /\ \A g \in FileNames \ {Current} : wt'[g] = wt[g]
          /\ ReturnedErr \in {AcceptFailed(AcceptedSide), "failed to stage file"}
          /\ ReturnedErr = AcceptFailed(AcceptedSide) =>
                /\ wt' = wt
                /\ NewCommands = <<CheckoutOf(AcceptedSide, Current)>>
          /\ ReturnedErr = "failed to stage file" =>
                /\ NewCommands = <<CheckoutOf(AcceptedSide, Current), StageOf(Current)>>
                /\ wt'[Current].work =
                      IF wt[Current].index = "unmerged" THEN AcceptedSide ELSE "plain"]_vars

C15_Witness ==
    /\ ses.pc = "aborted" /\ ses.err = "failed to stage file"
    /\ ses.trail[Len(ses.trail)].action = "theirs"
    /\ wt[Current] = [work |-> "theirs", index |-> "unmerged"]

\* the state of a listed file that no command has touched: conflicted while a
\* merge is in progress, plain when the conflicts come from a merge preview
Untouched(f) ==
    \/ wt[f] = [work |-> "markers", index |-> "unmerged"]
    \/ wt[f] = [work |-> "plain", index |-> "clean"]

\* C16: skip issues no command and changes neither working content nor index
\* of any file; the session proceeds to the next file (or ends successfully
\* after the last one), and every skipped file is still in the state it had,
\* conflicted, when the session has ended.
C16_SkipTouchesNothing ==
    /\ [][Chose("4") =>
             /\ NewCommands = <<>>
             /\ wt' = wt
             /\ Proceeds
             /\ ses'.trail = Append(ses.trail, [i |-> ses.i, action |-> "skip", err |-> "nil"])]_vars
    /\ [](ses.pc \in {"done", "aborted"} =>
             \A k \in 1..Len(ses.trail) :
                ses.trail[k].action = "skip" => Untouched(ses.conflicts[ses.trail[k].i]))

C16_Witness ==
    /\ ses.pc = "done" /\ Len(ses.conflicts) = 2
    /\ ses.trail[1].action = "skip" /\ ses.trail[2].action = "ours"
    /\ wt[ses.conflicts[1]] = [work |-> "markers", index |-> "unmerged"]
    /\ wt[ses.conflicts[2]].index = "staged"

\* C17: show diff and show help change no file and do not consume the file
\* presented: the same file, at the same index, is presented again and awaits
\* a choice; no per-file action is recorded and the session does not advance.
\* Show diff runs git diff on that file and nothing else; show help runs no
\* command.
C17_DiffAndHelpRepresent ==
    [][(Chose("5") \/ Chose("6")) =>
          /\ SameFileAgain
          /\ ses'.msg = IF Choice(ses'.typed) = <<"5">>
                        THEN "Showing diff" ELSE "Conflict Resolution Help"
          /\ NewCommands = IF Choice(ses'.typed) = <<"5">>
                           THEN <<Run("git", <<"diff", Current>>)>> ELSE <<>>]_vars

C17_Witness ==
    /\ ses.pc = "prompt" /\ ses.i = 2 /\ ses.shown = 3
    /\ ses.msg = "Showing diff" /\ Choice(ses.typed) = <<"5">>
    /\ ses.log # <<>> /\ ses.log[Len(ses.log)] = Run("git", <<"diff", "b.go">>)

\* C18: a line that is not one of the menu choices presents the same file
\* again with the invalid-choice message: the session does not advance, no
\* command is issued, no file changes, and the file is not recorded as
\* skipped.
C18_InvalidChoiceRepresents ==
    [][(ChoiceStep /\ Choice(ses'.typed) \notin MenuChoices) =>
          /\ SameFileAgain
          /\ ses'.msg = "Invalid choice. Please try again."
          /\ NewCommands = <<>>]_vars

C18_Witness ==
    /\ ses.pc = "prompt" /\ ses.i = 1 /\ ses.shown = 2
    /\ ses.typed = <<"1", "2", NL>>
    /\ ses.msg = "Invalid choice. Please try again."
    /\ ses.trail = <<>> /\ ses.log = <<>>

\* the editor that the stated priority order resolves: the configured editor,
\* else EDITOR, else the first program of the fixed list that is installed
StatedEditor(e) ==
    IF e.configured # "" THEN e.configured
    ELSE IF e.EDITOR # "" THEN e.EDITOR
    ELSE IF \E k \in 1..Len(CommonEditors) : CommonEditors[k] \in e.installed
    THEN CommonEditors[CHOOSE k \in 1..Len(CommonEditors) :
                          /\ CommonEditors[k] \in e.installed
                          /\ \A j \in 1..(k - 1) : CommonEditors[j] \notin e.installed]
    ELSE ""

\* C19: edit resolves the editor in the order configured editor, EDITOR, first
\* available program of the fixed list, and launches that program on the
\* file; when none resolves the action fails with the no-editor-found error
\* and neither launches anything nor stages the file.
C19_EditorPriority ==
    [][Chose("3") =>
          IF StatedEditor(env) = ""
          THEN /\ ActionReturned /\ ReturnedErr = "no editor found"
               /\ NewCommands = <<>> /\ wt' = wt
          ELSE /\ NewCommands # <<>>
               /\ NewCommands[1] = Run(StatedEditor(env), <<Current>>)]_vars

\* an empty answer, or y / yes in any case
AnswersYes(answer) ==
    LET a == TrimSpace(answer)
    IN a = <<>> \/ ToLower(a) = <<"y">> \/ ToLower(a) = <<"y", "e", "s">>

C21_StageOnlyAfterEditorSuccess ==
    [][Chose("3") =>
          /\ ReturnedErr = "failed to open editor" =>
                /\ ~ses'.asked
                /\ NewCommands = <<Run(resolveEditor(env), <<Current>>)>>
                /\ wt'[Current].index = wt[Current].index
                /\ ses'.pc = "aborted"
          /\ SelectSeq(NewCommands, IsStage) # <<>> =>
                /\ ses'.asked
                /\ ReturnedErr # "failed to open editor"]_vars

C21_Witness ==
    /\ ses.pc = "aborted" /\ ses.err = "failed to open editor"
    /\ ~ses.asked /\ Choice(ses.typed) = <<"3">>
    /\ ses.log = <<Run("vim", <<"a.go">>)>>
    /\ wt["a.go"] = [work |-> "edited", index |-> "unmerged"]

\* ---- the monitor's tick (SpecMonitor), continued ----

\* how often a notification was sent by the tick
CountNotes(kind) == Len(SelectSeq(tick.notes, LAMBDA n : n = kind))

\* C22: a tick that detects conflicts sends the conflicts notification (once),
\* and launches the resolution session if and only if auto_resolve is true;
\* a tick that detects none sends no conflicts notification and launches no
\* session, so that with auto_resolve false the polling loop never starts one.
C22_SessionIffAutoResolve ==
    /\ (tick.ran /\ tick.conflicts # <<>>) =>
          /\ CountNotes("Conflicts") = 1
          /\ tick.session <=> cfg.AutoResolve
    /\ tick.conflicts = <<>> => (~tick.session /\ CountNotes("Conflicts") = 0)
    /\ ~cfg.AutoResolve => ~tick.session

C22_Witness ==
    /\ tick.ran /\ tick.conflicts # <<>>
    /\ ~cfg.AutoResolve /\ ~tick.session
    /\ CountNotes("Conflicts") = 1

StatusCmd == Cmd("status", <<"--porcelain">>)
PullCmd == Cmd("pull", <<>>)
RunsPull(log) == \E k \in 1..Len(log) : log[k] = PullCmd

\* C29: git pull is never run on a working tree with uncommitted changes.
\* Pull, called in any reachable repository state with such changes, returns
\* the cannot-pull error after the status check alone and leaves the
\* repository as it is; and when it runs git pull, the status check came just
\* before and the tree was clean.  A tick runs git pull only when the tree was
\* clean, after the status check of attemptAutoPull and that of Pull.
C29_NoPullOnDirtyTree ==
    /\ [](\A net \in BOOLEAN :
            LET p == Pull(repo, net)
            IN /\ repo.worktree # "clean" =>
                     /\ p.err = <<"cannot pull: uncommitted changes in working directory">>
                     /\ p.log = <<StatusCmd>>
                     /\ p.repo = repo
               /\ RunsPull(p.log) => (repo.worktree = "clean" /\ p.log = <<StatusCmd, PullCmd>>))
    /\ [][(~tick.ran /\ tick'.ran) =>
             /\ repo.worktree # "clean" =>
                   (~RunsPull(tick'.log) /\ \A k \in 1..Len(tick'.notes) : tick'.notes[k] # "AutoPull")
             /\ \A k \in 1..Len(tick'.log) :
                   tick'.log[k] = PullCmd =>
                      /\ repo.worktree = "clean" /\ cfg.AutoPull
                      /\ k > 2 /\ tick'.log[k - 1] = StatusCmd /\ tick'.log[k - 2] = StatusCmd]_vars

\* a tick found the branch behind with auto-pull enabled and a dirty tree
C29_Witness ==
    /\ tick.ran /\ cfg.AutoPull
    /\ repo.worktree = "dirty"
    /\ \E k \in 1..Len(tick.notes) : tick.notes[k] = "BehindRemote"
    /\ \E k \in 1..Len(tick.log) : tick.log[k] = StatusCmd
    /\ ~RunsPull(tick.log)

\* ---- CheckForConflicts and its fallback (SpecRepo) ----

\* CheckForConflicts is called with a name that passes validation
ChecksConflicts ==
    /\ call.op = "none" /\ call'.op = "CheckForConflicts"
    /\ validateBranchName(call'.arg) = "nil"

MergeTreeCmd(r, target) ==
    Cmd("merge-tree", <<"--write-tree", "--name-only", r.head, target>>)

\* C23: when git answers merge-tree --write-tree with its usage message,
\* CheckForConflicts returns exactly what checkConflictsWithDiff returns for
\* the same target, value and error alike, after running the fallback's
\* commands; the merge-tree failure itself is never the returned error.
C23_UnsupportedMergeTreeFallsBack ==
    [][(ChecksConflicts /\ ~repo.mergeTree) =>
          LET fb == checkConflictsWithDiff(repo, call'.arg)
          IN /\ call'.val = <<fb.val>>
             /\ call'.err = fb.err
             /\ repo' = fb.repo
             /\ call'.log = <<Cmd("rev-parse", <<"--abbrev-ref", HeadRef>>),
                              MergeTreeCmd(repo, call'.arg)>> \o fb.log
             /\ (call'.err # NoErr => call'.err[1] # "merge-tree failed: ")]_vars

C23_Witness ==
    /\ call.op = "CheckForConflicts" /\ ~repo.mergeTree
    /\ call.err = NoErr /\ Len(call.val[1]) >= 2
    /\ Len(call.log) > 2 /\ call.log[3] = Cmd("merge-base", <<HeadRef, call.arg>>)

\* the paths of a list of conflicts
ConflictFiles(cs) == {cs[k].File : k \in 1..Len(cs)}

\* the contents of a path on the current side, the target side and at their
\* merge base
OursOf(f) == Tree[Resolve(repo, HeadRef)][f]
TheirsOf(target, f) == Tree[Resolve(repo, target)][f]
BaseOf(target, f) == Tree[MergeBaseOf(Resolve(repo, HeadRef), Resolve(repo, target))][f]

\* C24: in every reachable repository state and for every target that
\* resolves, checkConflictsWithDiff reports a path if and only if its content
\* on the current side and its content on the target side both differ from
\* the content at the merge base and from each other; so a path changed on
\* one side only, or changed alike on both sides, is not reported.
C24_FallbackReportsTrueConflicts ==
    \A target \in ArgNames :
       LET fb == checkConflictsWithDiff(repo, target)
       IN fb.err = NoErr =>
             \A f \in FileSet :
                <<f>> \in ConflictFiles(fb.val) <=>
                   /\ OursOf(f) # BaseOf(target, f)
                   /\ TheirsOf(target, f) # BaseOf(target, f)
                   /\ OursOf(f) # TheirsOf(target, f)

\* the current branch and its upstream have diverged: f1, f4 (modified
\* differently) and f5, f6 (deleted against modified) are reported,
\* f2 (changed alike) and f3 (changed on one side) are not
C24_Witness ==
    /\ call.op = "CheckForConflicts" /\ ~repo.mergeTree /\ call.err = NoErr
    /\ Resolve(repo, HeadRef) = "c2" /\ Resolve(repo, call.arg) = "c3"
    /\ ConflictFiles(call.val[1]) = {<<"f1">>, <<"f4">>, <<"f5">>, <<"f6">>}
    /\ OursOf("f2") = TheirsOf(call.arg, "f2") /\ OursOf("f2") # BaseOf(call.arg, "f2")
    /\ TheirsOf(call.arg, "f3") = BaseOf(call.arg, "f3") /\ OursOf("f3") # BaseOf(call.arg, "f3")

\* no two entries of a list of conflicts name the same file
NoDuplicates(cs) == \A i, j \in 1..Len(cs) : cs[i].File = cs[j].File => i = j

\* C28: the list of conflicts handed to a resolution session launched by a
\* tick never contains the same file path twice.
C28_SessionFilesDistinct ==
    tick.session => NoDuplicates(tick.conflicts)

\* ---- nested ours-open lines (SpecParse) ----

\* only white space
OnlySpace(s) == \A i \in 1..Len(s) : IsSpace(s[i])

\* the parser consumes an ours-open line while already inside a conflict
NestedOursOpenStep ==
    /\ ppc = "loop" /\ idx <= Len(lines) /\ idx' = idx + 1
    /\ HasPrefix(lines[idx], OursMarker)
    /\ inConflict

\* C30: an ours-open line consumed while inConflict is true (the current kind
\* is then Ours or Theirs) starts a new, empty Ours section and leaves
\* inConflict true; the buffer accumulated so far is appended to the sections
\* as it is if and only if it is not blank, nothing else is appended or
\* removed, and the parser goes on with the next line (it has no rejecting
\* state).
C30_NestedOursOpenStartsOurs ==
    [][NestedOursOpenStep =>
          /\ currentSection.Type \in {"ours", "theirs"}
          /\ currentSection' = Section("ours", <<>>)
          /\ inConflict'
          /\ sections' = IF OnlySpace(currentSection.Content)
                         THEN sections ELSE Append(sections, currentSection)
          /\ ppc' = "loop"]_vars

\* two ours-open lines with text between them and one with nothing between:
\* the unfinished Ours block was flushed, or the blank Theirs buffer was not
C30_Witness ==
    /\ ppc = "loop" /\ idx > 2 /\ inConflict
    /\ HasPrefix(lines[idx - 1], OursMarker)
    /\ currentSection = Section("ours", <<>>)
    /\ \/ /\ HasPrefix(lines[idx - 2], SepMarker)
          /\ sections # <<>> /\ sections[Len(sections)].Type = "ours"
       \/ /\ idx > 3 /\ HasPrefix(lines[idx - 3], OursMarker)
          /\ ~OnlySpace(lines[idx - 2])
          /\ sections # <<>>
          /\ sections[Len(sections)] = Section("ours", lines[idx - 2] \o <<NL>>)

\* ---- the threads of the Monitor (SpecLifecycle) ----

\* the polling goroutines with a tick in flight
Ticking == {g \in Loops : life.loops[g] \in InTick}

\* the polling goroutines that have not returned
Alive == {g \in Loops : life.loops[g] # "exited"}

\* C25: a polling goroutine with a tick in flight (its commands or its
\* resolution session) goes on with that tick or comes back to the select,
\* whether or not the context has been cancelled; it returns only from the
\* select, and only when the context is cancelled.
C25_CancelObservedBetweenTicks ==
    [][\A g \in Loops :
          /\ life.loops[g] = "command" =>
                life'.loops[g] \in {"command", "session", "select"}
          /\ life.loops[g] = "session" =>
                life'.loops[g] \in {"session", "select"}
          /\ (life.loops[g] # "exited" /\ life'.loops[g] = "exited") =>
                (life.loops[g] = "select" /\ life.cancelled)]_vars

\* Stop has cancelled the context and waits while a resolution session of a
\* tick is in flight
C25_Witness ==
    /\ life.cancelled /\ life.caller = "waiting"
    /\ \E g \in Loops : life.loops[g] = "session"

\* C26: at most one thread of control is reading or writing the Monitor's
\* fields and the repository: the goroutines with a tick in flight, and the
\* caller while it is inside Start, are together at most one.
C26_OneThreadAtATime ==
    Cardinality(Ticking) + (IF life.caller = "starting" THEN 1 ELSE 0) <= 1

\* C27: the WaitGroup counts the polling goroutines that have not returned;
\* when Stop returns, it returns nil, the context is cancelled and every
\* polling goroutine has returned, so that no tick is in flight; and a Stop
\* on a Monitor that launched no goroutine finds the counter at zero.
C27_StopWaitsForGoroutines ==
    /\ [](life.wg = Cardinality(Alive))
    /\ []((life.caller = "waiting" /\ life.loops = <<>>) => life.wg = 0)
    /\ [][(life.caller = "waiting" /\ life'.caller = "idle") =>
             /\ life'.ret = "nil" /\ life'.cancelled
             /\ \A g \in Loops : life'.loops[g] = "exited"
             /\ life'.loops = life.loops]_vars

\* the second Stop of Start, Stop, Start, Stop or of Start, Start, Stop, Stop
\* has returned after ticks have run
C27_Witness ==
    /\ life.last = "Stop" /\ life.caller = "idle" /\ life.ret = "nil"
    /\ life.calls = 4 /\ Len(life.loops) = 2 /\ life.ticks > 0
    /\ Alive = {}

\* ---- stray markers outside a conflict (SpecParse) ----

\* the parser consumes a line that begins with the separator or with the
\* close marker while it is outside a conflict
StrayMarkerStep ==
    /\ ppc = "loop" /\ idx <= Len(lines) /\ idx' = idx + 1
    /\ ~inConflict
    /\ HasPrefix(lines[idx], SepMarker) \/ HasPrefix(lines[idx], TheirsMarker)

\* C31: a line beginning with the separator marker or the theirs-close marker,
\* consumed while inConflict is false, is appended with a newline to the
\* content of the current section, which is Normal; no section is flushed,
\* the kind of the current section and inConflict do not change.
C31_StrayMarkerIsText ==
    [][StrayMarkerStep =>
          /\ currentSection.Type = "normal"
          /\ currentSection' =
                Section("normal", currentSection.Content \o lines[idx] \o <<NL>>)
          /\ sections' = sections
          /\ ~inConflict'
          /\ ppc' = "loop"]_vars

\* a separator line and then a close line, both outside a conflict, are the
\* end of the Normal buffer
C31_Witness ==
    /\ ppc = "loop" /\ idx > 2 /\ ~inConflict
    /\ lines[idx - 2] = SepMarker /\ lines[idx - 1] = CloseBranch
    /\ currentSection.Type = "normal"
    /\ HasSuffix(currentSection.Content, SepMarker \o <<NL>> \o CloseBranch \o <<NL>>)

\* ---- the flag and the kind of the current section (SpecParse) ----

\* C35: in every state of a call of parseConflict, inConflict is true exactly
\* when the kind of the current section is Ours or Theirs and false exactly
\* when it is Normal (there is no other kind); so a Theirs section is current
\* only while inConflict is true.
C35_FlagMatchesKind ==
    /\ currentSection.Type \in {"normal", "ours", "theirs"}
    /\ inConflict <=> currentSection.Type \in {"ours", "theirs"}
    /\ ~inConflict <=> currentSection.Type = "normal"
    /\ currentSection.Type = "theirs" => inConflict

\* inside the Theirs part of a second conflict block, after a closed one
C35_Witness ==
    /\ ppc = "loop" /\ inConflict /\ currentSection.Type = "theirs"
    /\ \E k \in 1..Len(sections) :
          /\ sections[k].Type = "theirs"
          /\ k < Len(sections) /\ sections[Len(sections)].Type = "ours"

\* ---- conservation of content (SpecParse) ----

\* whether the parser is inside a conflict when it reads line i: the last
\* earlier line beginning with an ours-open or a close marker is an ours-open
OpenBefore(ls, i) ==
    LET m == {j \in 1..(i - 1) :
                 HasPrefix(ls[j], OursMarker) \/ HasPrefix(ls[j], TheirsMarker)}
    IN m # {} /\ HasPrefix(ls[CHOOSE j \in m : \A k \in m : k <= j], OursMarker)

\* line i is consumed as a marker
ConsumedAsMarker(ls, i) ==
    \/ HasPrefix(ls[i], OursMarker)
    \/ /\ HasPrefix(ls[i], SepMarker) \/ HasPrefix(ls[i], TheirsMarker)
       /\ OpenBefore(ls, i)

\* the lines of the input that are not consumed as markers, in input order
ContentLines ==
    LET ls == Split(content)
        keep == {i \in 1..Len(ls) : ~ConsumedAsMarker(ls, i)}
        nth(k) == CHOOSE i \in keep : Cardinality({j \in keep : j < i}) = k - 1
    IN [k \in 1..Cardinality(keep) |-> ls[nth(k)]]

\* the lines of the contents of a sequence of sections, in order; every
\* content ends in a newline, so the empty piece after it is not a line
LinesOf(secs) ==
    Flatten([k \in 1..Len(secs) |->
                LET p == Split(secs[k].Content) IN SubSeq(p, 1, Len(p) - 1)])

\* the lines that are not whitespace only, in order
NonBlankLinesOf(ls) == SelectSeq(ls, LAMBDA l : ~OnlySpace(l))

\* everything the parser holds: the finished sections and the buffer
Held == Flatten([k \in 1..Len(sections) |-> sections[k].Content]) \o currentSection.Content

HeldNext == Flatten([k \in 1..Len(sections') |-> sections'[k].Content]) \o currentSection'.Content

\* C36: when parseConflict has returned, the non-blank lines of the contents
\* of the returned sections, in section order, are exactly the non-blank
\* input lines that were not consumed as markers, in input order, and every
\* returned content is a sequence of whole lines each followed by a newline;
\* and at every step of the loop what the parser holds (sections and buffer)
\* either stays, or grows at its end by the line read and a newline, or loses the
\* current buffer when that buffer is whitespace only.
C36_ContentConserved ==
    /\ [](ppc = "done" =>
            /\ NonBlankLinesOf(LinesOf(sections)) = NonBlankLinesOf(ContentLines)
            /\ Len(LinesOf(sections)) <= Len(ContentLines)
            /\ \A k \in 1..Len(sections) :
                  sections[k].Content = <<>> \/ HasSuffix(sections[k].Content, <<NL>>))
    /\ [][(ppc = "loop" /\ ppc' = "loop") =>
            \/ HeldNext = Held
            \/ /\ idx <= Len(lines) /\ ~ConsumedAsMarker(lines, idx)
               /\ HeldNext = Held \o lines[idx] \o <<NL>>
            \/ /\ OnlySpace(currentSection.Content)
               /\ HeldNext \o currentSection.Content = Held]_vars

\* an input whose first line is blank and was dropped with its buffer at the
\* ours-open line, and whose text inside the conflict was returned
C36_Witness ==
    /\ ppc = "done" /\ sections # <<>> /\ sections[1].Type = "ours"
    /\ NonBlankLinesOf(LinesOf(sections)) # <<>>
    /\ Len(LinesOf(sections)) < Len(ContentLines)
    /\ ContentLines[1] = Blank

\* ---- the parser of merge-tree output (SpecRepo) ----

\* the lines of an output that report a conflict, in output order
ReportingLines(output) == SelectSeq(Split(output), LAMBDA l : Contains(l, <<"CONFLICT">>))

\* the paths git reports as conflicting between the current branch and a
\* target, in the order of its messages
ReportedPaths(target) ==
    PathsIn(UnmergeablePaths(Resolve(repo, repo.head), Resolve(repo, target)), 1)

\* C33: for the output of merge-tree in every reachable repository state and
\* for every target that resolves, parseConflictsFromMergeTree returns one
\* Conflict per line containing CONFLICT, in output order, whose Content is
\* that line and whose File is the path the line reports; with no such line
\* it returns the empty list.
C33_OneConflictPerLineWithItsPath ==
    \A target \in ArgNames :
       LET output == GitMergeTree(repo, repo.head, target).stdout
           parsed == parseConflictsFromMergeTree(output)
       IN (repo.mergeTree /\ Resolve(repo, repo.head) # NoCommit
                          /\ Resolve(repo, target) # NoCommit) =>
             /\ Len(parsed) = Len(ReportingLines(output))
             /\ Len(parsed) = Len(ReportedPaths(target))
             /\ \A k \in 1..Len(parsed) :
                   /\ parsed[k].Content = ReportingLines(output)[k]
                   /\ parsed[k].File = <<ReportedPaths(target)[k]>>

\* ---- branch switches and the in-sync notification (SpecNotify) ----

\* a tick runs in this step
TickStep == ~tick.ran /\ tick'.ran

\* the tick of this step found another branch than the one recorded
SwitchStep ==
    /\ TickStep /\ tick'.branch # <<>>
    /\ mon.currentBranch # <<>> /\ mon.currentBranch # tick'.branch

NotifiedInSync(t) == \E k \in 1..Len(t.notes) : t.notes[k] = "InSync"

\* C34: a tick that gets the current branch records it as currentBranch.
\* When the branch differs from a non-empty recorded one, lastRemoteCommit
\* is empty afterwards and the sync state is evaluated against a
\* lastSyncStatus of false: an in-sync result is notified, and a tick whose
\* evaluation fails leaves lastSyncStatus false.  Otherwise (first tick, or
\* the same branch) lastRemoteCommit is untouched and lastSyncStatus changes
\* only by a completed evaluation.
C34_BranchSwitchResetsTracking ==
    [][(TickStep /\ tick'.branch # <<>>) =>
          /\ mon'.currentBranch = tick'.branch
          /\ IF SwitchStep
             THEN /\ mon'.lastRemoteCommit = <<>>
                  /\ mon'.lastSyncStatus = (tick'.evaluated /\ tick'.inSync)
                  /\ (tick'.evaluated /\ tick'.inSync) => NotifiedInSync(tick')
             ELSE /\ mon'.lastRemoteCommit = mon.lastRemoteCommit
                  /\ mon'.lastSyncStatus =
                        IF tick'.evaluated THEN tick'.inSync ELSE mon.lastSyncStatus]_vars

\* after an in-sync tick on the first branch, a tick on the other branch:
\* the remote commit stored by Start is gone and lastSyncStatus is false
C34_Witness ==
    /\ tick.ran /\ hist.switched /\ hist.lastEval = "in"
    /\ tick.branch = Feat /\ mon.currentBranch = Feat
    /\ mon.lastRemoteCommit = <<>> /\ ~mon.lastSyncStatus

\* C38 as stated: the notification is sent on a tick exactly when the tick
\* finds the branch in sync and it is the first tick, or the branch was
\* switched on this tick, or the last tick that completed sync evaluation
\* was out of sync.
C38_NotifiedOnListedEdges ==
    [][TickStep =>
          (NotifiedInSync(tick') <=>
              /\ tick'.evaluated /\ tick'.inSync
              /\ \/ ~hist.ticked
                 \/ SwitchStep
                 \/ hist.lastEval = "out")]_vars

\* lastSyncStatus as the tick sees it after its branch-switch test
StatusAtEvaluation == IF SwitchStep THEN FALSE ELSE mon.lastSyncStatus

\* C38 (amended): lastSyncStatus is true exactly when the last tick that
\* completed sync evaluation since the latest branch switch found the branch
\* in sync; the notification is sent on a tick exactly when the tick finds
\* the branch in sync and lastSyncStatus is false at that point, that is,
\* when no tick has completed sync evaluation since the Monitor was made or
\* since the latest branch switch (one on this tick included), or the last
\* one that did was out of sync; so the second of two consecutive in-sync
\* ticks on the same branch sends nothing.
C38_NotifiedOnEdge ==
    /\ [](mon.lastSyncStatus <=> hist.evalSince = "in")
    /\ [][TickStep =>
            /\ NotifiedInSync(tick') <=>
                  (tick'.evaluated /\ tick'.inSync /\ ~StatusAtEvaluation)
            /\ NotifiedInSync(tick') <=>
                  /\ tick'.evaluated /\ tick'.inSync
                  /\ SwitchStep \/ hist.evalSince \in {"none", "out"}
            /\ (hist.evalSince = "in" /\ ~SwitchStep) => ~NotifiedInSync(tick')]_vars

\* the second of two consecutive in-sync ticks on the same branch: the
\* branch is found in sync, lastSyncStatus was true, nothing is sent
C38_Witness ==
    /\ tick.ran /\ tick.evaluated /\ tick.inSync /\ ~NotifiedInSync(tick)
    /\ hist.ticked /\ ~hist.switched /\ mon.lastSyncStatus
    /\ tick.branch = Main

\* ---- termination of a scripted session (SpecScript) ----

\* C37: for every finite input script, ResolveConflicts eventually returns,
\* nil or an error.
C37_SessionTerminates == <>(ses.pc \in {"done", "aborted"})

\* ---- the poll interval (SpecLifecycle) ----

\* C39: whatever PollInterval the Monitor was made with, no polling
\* goroutine ends in a panic, and a polling goroutine that has ended has
\* returned through the cancellation branch.
C39_NoCrashForAnyInterval ==
    /\ ~life.crashed
    /\ \A g \in Loops : life.loops[g] # "panicked"

\* ---- sendStopSignal (SpecStop) ----

\* C40: when the first check finds no process, an error is returned
\* and nothing is sent; the signals sent are SIGTERM and then, at most,
\* SIGKILL; SIGKILL is sent only after all StopPolls polls found the
\* process; once a poll has found the process gone nothing more is sent.
C40_EscalationOrder ==
    /\ [](/\ sig.first = "absent" =>
               sig.pc \in {"done", "returned"} /\ sig.ret = "err" /\ sig.sent = <<>>
          /\ sig.sent \in {<<>>, <<"SIGTERM">>, <<"SIGTERM", "SIGKILL">>}
          /\ sig.i <= StopPolls
          /\ Len(sig.sent) = 2 => sig.i = StopPolls /\ ~sig.seenGone
          /\ sig.seenGone => sig.pc \in {"done", "returned"} /\ sig.ret = "nil")
    /\ [][sig.seenGone => sig'.sent = sig.sent]_vars

\* the process outlives SIGTERM and all the polls, and is killed
C40_Witness ==
    /\ sig.pc = "returned"
    /\ sig.sent = <<"SIGTERM", "SIGKILL">>
    /\ sig.i = StopPolls
    /\ sig.ret = "nil"

\* ---- cleanupLogFile (SpecStop) ----

\* a line of the file is real monitoring output
HasRealOutput(ls) == \E i \in 1..Len(ls) : IsRealContent(ls[i])

\* the step of stopMonitor that calls cleanupLogFile on a file that exists
CleanupStep == stopMonitor /\ sig.ret = "nil" /\ logf.exists

\* the file holds startup messages and, at most, blank lines besides
OnlyStartupMessages(ls) ==
    /\ ~HasRealOutput(ls)
    /\ \E i \in 1..Len(ls) : TrimSpace(ls[i]) # <<>>

\* C32: cleanupLogFile leaves a log file with a line of real
\* monitoring output in place, and removes a log file that holds only
\* startup messages.
C32_RemovedIffOnlyStartup ==
    [][CleanupStep =>
          /\ HasRealOutput(logf.lines) => logf'.exists
          /\ OnlyStartupMessages(logf.lines) => ~logf'.exists]_vars

====
